---- MODULE Spec2Model ----
(***************************************************************************)
(* A model of the lead scraper: the text and URL utilities                *)
(* (app/scraper/utils.py), record cleaning, validation and the retry      *)
(* wrapper (app/scraper/base_scraper.py), the per-URL pipeline            *)
(* (app/scraper/cohesive_clone.py) and the batch loop                     *)
(* (app/ui/streamlit_app.py).                                             *)
(*                                                                         *)
(* A Python string is a sequence of one-character strings; a Python value *)
(* is a tagged record (NoneV, StrV, IntV, ListV, DictV) so that           *)
(* isinstance dispatch and truthiness are computed, not assumed.          *)
(***************************************************************************)
EXTENDS Integers, Sequences, FiniteSets, TLC

\* ------------------------------------------------------------ characters

LowerCh == {"a","b","c","d","e","f","g","h","i","j","k","l","m",
            "n","o","p","q","r","s","t","u","v","w","x","y","z"}
UpperCh == {"A","B","C","D","E","F","G","H","I","J","K","L","M",
            "N","O","P","Q","R","S","T","U","V","W","X","Y","Z"}
DigitCh == {"0","1","2","3","4","5","6","7","8","9"}
LetterCh == LowerCh \cup UpperCh
\* \w of the re module
WordCh == LetterCh \cup DigitCh \cup {"_"}
\* \s of the re module, and what str.split() splits on
SpaceCh == {" ", "\t", "\n"}

UpperSeq == <<"A","B","C","D","E","F","G","H","I","J","K","L","M",
              "N","O","P","Q","R","S","T","U","V","W","X","Y","Z">>
LowerSeq == <<"a","b","c","d","e","f","g","h","i","j","k","l","m",
              "n","o","p","q","r","s","t","u","v","w","x","y","z">>

\* str.lower(), one character
LowerChar(c) ==
    IF c \in UpperCh
    THEN LowerSeq[CHOOSE i \in 1..26 : UpperSeq[i] = c]
    ELSE c

\* str.lower()
Lower(s) == [i \in 1..Len(s) |-> LowerChar(s[i])]

\* s[i:] and s[:i] with 1-based positions: the suffix from i, the prefix before i
From(s, i) == SubSeq(s, i, Len(s))
Before(s, i) == SubSeq(s, 1, i - 1)

\* s.startswith(p)
StartsWith(s, p) == Len(s) >= Len(p) /\ SubSeq(s, 1, Len(p)) = p

\* the first position >= i at which p occurs in s, or 0
RECURSIVE FindFrom(_, _, _)
FindFrom(s, p, i) ==
    IF i + Len(p) - 1 > Len(s) THEN 0
    ELSE IF SubSeq(s, i, i + Len(p) - 1) = p THEN i
    ELSE FindFrom(s, p, i + 1)

\* the first position at which some character of cs occurs in s, or 0
RECURSIVE FindAny(_, _, _)
FindAny(s, cs, i) ==
    IF i > Len(s) THEN 0
    ELSE IF s[i] \in cs THEN i
    ELSE FindAny(s, cs, i + 1)

AllIn(s, cs) == \A i \in 1..Len(s) : s[i] \in cs

\* ------------------------------------------------- TextCleaner.clean_text

\* re.match(r'https?://\S+', text)
is_probably_url(text) ==
    LET rest == IF StartsWith(text, <<"h","t","t","p","s",":","/","/">>)
                THEN From(text, 9)
                ELSE IF StartsWith(text, <<"h","t","t","p",":","/","/">>)
                THEN From(text, 8)
                ELSE <<>>
    IN  Len(rest) >= 1 /\ rest[1] \notin SpaceCh

\* BeautifulSoup(text, 'html.parser').get_text(): the text outside the tags.
\* A tag runs from a "<" that a letter or "/" follows to the next ">"; a "<"
\* that opens no tag is text.
RECURSIVE get_text(_)
get_text(s) ==
    IF s = <<>> THEN <<>>
    ELSE IF /\ s[1] = "<"
            /\ Len(s) >= 2
            /\ s[2] \in LetterCh \cup {"/"}
            /\ FindFrom(s, <<">">>, 2) # 0
    THEN get_text(From(s, FindFrom(s, <<">">>, 2) + 1))
    ELSE <<s[1]>> \o get_text(Tail(s))

\* text.split(): the maximal runs of non-whitespace characters
RECURSIVE split(_)
split(s) ==
    IF s = <<>> THEN <<>>
    ELSE IF s[1] \in SpaceCh THEN split(Tail(s))
    ELSE LET e == FindAny(s, SpaceCh, 1)
         IN  IF e = 0 THEN <<s>>
             ELSE <<Before(s, e)>> \o split(From(s, e))

\* " ".join(words)
RECURSIVE join(_)
join(words) ==
    IF words = <<>> THEN <<>>
    ELSE IF Len(words) = 1 THEN words[1]
    ELSE words[1] \o <<" ">> \o join(Tail(words))

\* re.sub(r'[^\w\s@.,-]', '', text)
KeptCh == WordCh \cup SpaceCh \cup {"@", ".", ",", "-"}
remove_special(s) == SelectSeq(s, LAMBDA c : c \in KeptCh)

\* re.sub(c + '{2,}', c, text): a run of c becomes one c
RECURSIVE collapse(_, _)
collapse(s, c) ==
    IF Len(s) < 2 THEN s
    ELSE IF s[1] = c /\ s[2] = c THEN collapse(Tail(s), c)
    ELSE <<s[1]>> \o collapse(Tail(s), c)

\* text.strip('.,- ')
StripCh == {".", ",", "-", " "}
RECURSIVE lstrip(_)
lstrip(s) == IF s # <<>> /\ s[1] \in StripCh THEN lstrip(Tail(s)) ELSE s
RECURSIVE rstrip(_)
rstrip(s) ==
    IF s # <<>> /\ s[Len(s)] \in StripCh THEN rstrip(Before(s, Len(s))) ELSE s
strip(s) == rstrip(lstrip(s))

clean_text(text) ==
    IF text = <<>> THEN <<>>
    ELSE LET t1 == IF is_probably_url(text) THEN text ELSE get_text(text)
             t2 == join(split(t1))
             t3 == remove_special(t2)
             t4 == collapse(collapse(collapse(t3, "."), ","), "-")
         IN  strip(t4)

\* ------------------------------------------------------------ URLHandler

\* the pieces urlparse(url) gives: scheme, netloc
urlparse(url) ==
    LET i == FindFrom(url, <<":", "/", "/">>, 1)
        after == IF i = 0 THEN <<>> ELSE From(url, i + 3)
        e == FindAny(after, {"/", "?", "#"}, 1)
    IN  IF i <= 1 \/ ~AllIn(Before(url, i), LetterCh)
        THEN [scheme |-> <<>>, netloc |-> <<>>]
        ELSE [scheme |-> Lower(Before(url, i)),
              netloc |-> IF e = 0 THEN after ELSE Before(after, e)]

\* s.split('.')
RECURSIVE labels(_)
labels(s) ==
    LET d == FindFrom(s, <<".">>, 1)
    IN  IF d = 0 THEN <<s>> ELSE <<Before(s, d)>> \o labels(From(s, d + 1))

\* ".".join(ls)
RECURSIVE join_dots(_)
join_dots(ls) ==
    IF ls = <<>> THEN <<>>
    ELSE IF Len(ls) = 1 THEN ls[1]
    ELSE ls[1] \o <<".">> \o join_dots(Tail(ls))

\* validators.url(url): a scheme the library knows, "://", and a host made
\* of dot-separated labels that ends in an alphabetic top-level label
ValidatorSchemes == {<<"h","t","t","p">>, <<"h","t","t","p","s">>, <<"f","t","p">>}
validators_url(url) ==
    LET p == urlparse(url)
        ls == labels(p.netloc)
    IN  /\ p.scheme \in ValidatorSchemes
        /\ \A i \in 1..Len(url) : url[i] \notin SpaceCh
        /\ Len(ls) >= 2
        /\ \A i \in 1..Len(ls) :
              ls[i] # <<>> /\ AllIn(ls[i], LetterCh \cup DigitCh \cup {"-"})
        /\ Len(ls[Len(ls)]) >= 2
        /\ AllIn(ls[Len(ls)], LetterCh)

\* tldextract.extract(url): the public suffix and the label before it.  The
\* public-suffix list is the labels below.
PublicSuffixes == {<<"i","o">>, <<"c","o","m">>, <<"o","r","g">>, <<"c","o">>}
tldextract(url) ==
    LET p == urlparse(url)
        e == FindAny(url, {"/", "?", "#"}, 1)
        host == Lower(IF p.scheme # <<>> THEN p.netloc
                      ELSE IF e = 0 THEN url ELSE Before(url, e))
        ls == labels(host)
        n == Len(ls)
    IN  IF n >= 2 /\ ls[n] \in PublicSuffixes
        THEN [subdomain |-> IF n >= 3 THEN SubSeq(ls, 1, n - 2) ELSE <<>>,
              domain |-> ls[n - 1], suffix |-> ls[n]]
        ELSE [subdomain |-> IF n >= 2 THEN SubSeq(ls, 1, n - 1) ELSE <<>>,
              domain |-> ls[n], suffix |-> <<>>]

SuspiciousDomains ==
    {<<"e","x","a","m","p","l","e">>, <<"t","e","s","t">>,
     <<"l","o","c","a","l","h","o","s","t">>}

validate_url(url) ==
    IF url = <<>> THEN FALSE
    ELSE IF ~validators_url(url) THEN FALSE
    ELSE LET parsed == urlparse(url)
             ext == tldextract(url)
         IN  IF parsed.scheme = <<>> \/ parsed.netloc = <<>> THEN FALSE
             ELSE IF parsed.scheme \notin {<<"h","t","t","p">>, <<"h","t","t","p","s">>}
             THEN FALSE
             ELSE IF ext.suffix = <<>> THEN FALSE
             ELSE IF ext.domain \in SuspiciousDomains THEN FALSE
             ELSE TRUE

\* f"{ext.domain}.{ext.suffix}", preceded by the subdomain unless it is www
extract_domain(url) ==
    LET ext == tldextract(url)
        domain == ext.domain \o <<".">> \o ext.suffix
    IN  Lower(IF ext.subdomain # <<>> /\ ext.subdomain # <<<<"w","w","w">>>>
              THEN join_dots(ext.subdomain) \o <<".">> \o domain
              ELSE domain)

\* ---------------------------------------------------------- Python values

NoneV == [t |-> "none"]
StrV(s) == [s |-> s, t |-> "str"]
IntV(n) == [n |-> n, t |-> "int"]
ListV(l) == [t |-> "list", l |-> l]
DictV(d) == [d |-> d, t |-> "dict"]
SetV(e) == [e |-> e, t |-> "set"]
BoolV(b) == [t |-> "bool", b |-> b]

\* {} : the mapping with no key
EmptyDict == [k \in {} |-> NoneV]

\* bool(v)
Truthy(v) ==
    CASE v.t = "none" -> FALSE
      [] v.t = "str" -> v.s # <<>>
      [] v.t = "int" -> v.n # 0
      [] v.t = "list" -> v.l # <<>>
      [] v.t = "dict" -> DOMAIN v.d # {}
      [] v.t = "set" -> v.e # {}
      [] v.t = "bool" -> v.b

\* d.get(k), d.get(k, default)
Get(d, k) == IF k \in DOMAIN d THEN d[k] ELSE NoneV
GetOr(d, k, default) == IF k \in DOMAIN d THEN d[k] ELSE default

DigitSeq == <<"0","1","2","3","4","5","6","7","8","9">>
\* str(n) of an int n >= 0
RECURSIVE IntStr(_)
IntStr(n) ==
    IF n < 10 THEN <<DigitSeq[n + 1]>>
    ELSE IntStr(n \div 10) \o <<DigitSeq[(n % 10) + 1]>>

\* str(v) of a list item
py_str(v) ==
    CASE v.t = "str" -> v.s
      [] v.t = "int" -> IntStr(v.n)

\* ------------------------------------------------- BaseScraper.clean_data

\* [clean_text(str(v)) for v in value if v]
RECURSIVE clean_list(_)
clean_list(l) ==
    IF l = <<>> THEN <<>>
    ELSE IF Truthy(l[1])
    THEN <<StrV(clean_text(py_str(l[1])))>> \o clean_list(Tail(l))
    ELSE clean_list(Tail(l))

RECURSIVE clean_data(_)
clean_data(data) ==
    LET cleaned_val(key) ==
            LET value == data[key]
            IN  CASE value.t = "str" -> StrV(clean_text(value.s))
                  [] value.t = "list" -> ListV(clean_list(value.l))
                  [] value.t = "dict" -> DictV(clean_data(value.d))
                  [] OTHER -> value
    IN  [key \in {k \in DOMAIN data : Truthy(cleaned_val(k))} |-> cleaned_val(key)]

\* ------------------------------------------------------------ app/config.py

VARIABLES
    retry_attempts,          \* SCRAPING_CONFIG['retry_attempts'], int(MAX_RETRIES)
    delay_between_requests,  \* SCRAPING_CONFIG['delay_between_requests']
    driver_file_exists       \* whether SCRAPING_CONFIG['chrome_driver_path'] exists

SCRAPING_CONFIG ==
    [timeout |-> 30,
     retry_attempts |-> retry_attempts,
     delay_between_requests |-> delay_between_requests,
     max_urls_per_batch |-> 50,
     chrome_driver_path |-> driver_file_exists,
     proxy |-> [enabled |-> FALSE]]

DATA_PROCESSING ==
    [min_data_points |-> 3,
     required_fields |-> <<"name", "website", "email">>,
     export_formats |-> <<"csv", "xlsx", "json">>]

\* --------------------------------------------- BaseScraper.validate_data

\* the last position at which c occurs in s, or 0
RECURSIVE LastIndex(_, _)
LastIndex(s, c) ==
    IF s = <<>> THEN 0
    ELSE IF s[Len(s)] = c THEN Len(s)
    ELSE LastIndex(Before(s, Len(s)), c)

EmailLocalCh == LetterCh \cup DigitCh \cup {".", "_", "%", "+", "-"}
EmailDomainCh == LetterCh \cup DigitCh \cup {".", "-"}

\* re.match(r'^[a-zA-Z0-9._%+-]+@[a-zA-Z0-9.-]+\.[a-zA-Z]{2,}$', email):
\* neither class holds "@", so the "@" of a match is the first one; the
\* top-level label holds no ".", so its "." is the last one; "$" also matches
\* before one final newline
email_pattern_matches(email) ==
    LET body == IF email # <<>> /\ email[Len(email)] = "\n"
                THEN Before(email, Len(email)) ELSE email
        a == FindFrom(body, <<"@">>, 1)
        rest == IF a = 0 THEN <<>> ELSE From(body, a + 1)
        d == LastIndex(rest, ".")
    IN  /\ a > 1
        /\ AllIn(Before(body, a), EmailLocalCh)
        /\ d > 1
        /\ AllIn(Before(rest, d), EmailDomainCh)
        /\ Len(rest) - d >= 2
        /\ AllIn(From(rest, d + 1), LetterCh)

S_example_com == <<"e","x","a","m","p","l","e",".","c","o","m">>
S_test_com == <<"t","e","s","t",".","c","o","m">>
S_localhost == <<"l","o","c","a","l","h","o","s","t">>

\* email.split('@')[1]
email_domain(email) ==
    LET a == FindFrom(email, <<"@">>, 1)
        rest == From(email, a + 1)
        b == FindFrom(rest, <<"@">>, 1)
    IN  IF b = 0 THEN rest ELSE Before(rest, b)

_validate_email_format(email) ==
    IF ~email_pattern_matches(email) THEN FALSE
    ELSE IF Lower(email_domain(email)) \in {S_example_com, S_test_com, S_localhost}
    THEN FALSE
    ELSE TRUE

\* re.sub(r'\D', '', phone)
digits_of(phone) == SelectSeq(phone, LAMBDA c : c \in DigitCh)

\* a phone check that leaves out the lower end of the range
_validate_phone_format_open(phone) ==
    10 < Len(digits_of(phone)) /\ Len(digits_of(phone)) <= 15

_validate_phone_format(phone) ==
    10 <= Len(digits_of(phone)) /\ Len(digits_of(phone)) <= 15

required_fields_default == <<"name", "website">>

validate_data(data) ==
    IF DOMAIN data = {} THEN FALSE
    ELSE LET required_fields ==
                 GetOr(SCRAPING_CONFIG, "required_fields", required_fields_default)
         IN  IF ~(\A i \in 1..Len(required_fields) : Truthy(Get(data, required_fields[i])))
             THEN FALSE
             ELSE IF /\ "email" \in DOMAIN data /\ Truthy(data["email"])
                     /\ ~_validate_email_format(data["email"].s)
             THEN FALSE
             ELSE IF /\ "website" \in DOMAIN data /\ Truthy(data["website"])
                     /\ ~validate_url(data["website"].s)
             THEN FALSE
             ELSE IF /\ "phone" \in DOMAIN data /\ Truthy(data["phone"])
                     /\ ~_validate_phone_format(data["phone"].s)
             THEN FALSE
             ELSE TRUE

\* ------------------------------------------------ app/ui/streamlit_app.py

\* s.split(c)
RECURSIVE split_on(_, _)
split_on(s, c) ==
    LET d == FindFrom(s, <<c>>, 1)
    IN  IF d = 0 THEN <<s>> ELSE <<Before(s, d)>> \o split_on(From(s, d + 1), c)

\* s.strip()
RECURSIVE ws_lstrip(_)
ws_lstrip(s) == IF s # <<>> /\ s[1] \in SpaceCh THEN ws_lstrip(Tail(s)) ELSE s
RECURSIVE ws_rstrip(_)
ws_rstrip(s) ==
    IF s # <<>> /\ s[Len(s)] \in SpaceCh THEN ws_rstrip(Before(s, Len(s))) ELSE s
ws_strip(s) == ws_rstrip(ws_lstrip(s))

\* the messages the page shows
ErrEnterValid == [kind |-> "error", about |-> "enter_valid_urls"]
ErrTooMany == [kind |-> "error", about |-> "too_many_urls"]
ErrScraping(url) == [kind |-> "error", about |-> "scraping", url |-> url]
ErrNoValid == [kind |-> "error", about |-> "no_valid_data"]
ErrNoMatch == [kind |-> "error", about |-> "no_match"]
ErrDisplay == [kind |-> "error", about |-> "display"]
MsgSuccess(n) == [kind |-> "success", n |-> n]
MsgResults(rs) == [kind |-> "results", rows |-> rs]

\* validate_urls, given the lines of the text area: the URLs to scrape and the
\* errors shown
validate_urls(lines) ==
    LET url_list == SelectSeq([i \in 1..Len(lines) |-> ws_strip(lines[i])],
                              LAMBDA u : u # <<>>)
        valid_urls == SelectSeq(url_list, validators_url)
    IN  IF lines = <<>> THEN [urls |-> <<>>, shown |-> <<>>]
        ELSE IF valid_urls = <<>> THEN [urls |-> <<>>, shown |-> <<ErrEnterValid>>]
        ELSE IF Len(valid_urls) > SCRAPING_CONFIG.max_urls_per_batch
        THEN [urls |-> <<>>, shown |-> <<ErrTooMany>>]
        ELSE [urls |-> valid_urls, shown |-> <<>>]

\* validate_scraped_data: every item is a mapping here
validate_scraped_data(data) ==
    LET required_fields == <<"name", "website">>
        keep(item) ==
            /\ \A i \in 1..Len(required_fields) : required_fields[i] \in DOMAIN item
            /\ \A i \in 1..Len(required_fields) : item[required_fields[i]] # NoneV
    IN  IF data = <<>> THEN <<>> ELSE SelectSeq(data, keep)

\* revenue_map, the amounts in thousands
revenue_map_thousands ==
    [x \in {"1M", "5M", "10M", "50M", "100M", "500M", "1B+"} |->
        CASE x = "1M" -> 1000
          [] x = "5M" -> 5000
          [] x = "10M" -> 10000
          [] x = "50M" -> 50000
          [] x = "100M" -> 100000
          [] x = "500M" -> 500000
          [] x = "1B+" -> 1000000]

\* revenue_map
revenue_map ==
    [x \in {"1M", "5M", "10M", "50M", "100M", "500M", "1B+"} |->
        CASE x = "1M" -> 1000000
          [] x = "5M" -> 5000000
          [] x = "10M" -> 10000000
          [] x = "50M" -> 50000000
          [] x = "100M" -> 100000000
          [] x = "500M" -> 500000000
          [] x = "1B+" -> 1000000000]

InList(v, l) == \E i \in 1..Len(l) : l[i] = v

\* str(v) of a location value
location_str(v) == IF v.t = "str" THEN v.s ELSE py_str(v)

\* apply_filters, keeping the records with more employees than the minimum
apply_filters_above(data, filters) ==
    LET f1 == IF filters.min_employees > 0
              THEN SelectSeq(data, LAMBDA d :
                       GetOr(d, "employees", IntV(0)).n > filters.min_employees)
              ELSE data
        f2 == IF filters.industry # <<>>
              THEN SelectSeq(f1, LAMBDA d : InList(Get(d, "industry"), filters.industry))
              ELSE f1
        locations == LET parts == split_on(filters.location, ",")
                     IN  [i \in 1..Len(parts) |-> Lower(ws_strip(parts[i]))]
        f3 == IF filters.location # <<>>
              THEN SelectSeq(f2, LAMBDA d :
                       \E i \in 1..Len(locations) :
                           FindFrom(Lower(location_str(GetOr(d, "location", StrV(<<>>)))),
                                    locations[i], 1) # 0)
              ELSE f2
        f4 == IF filters.technologies # <<>>
              THEN SelectSeq(f3, LAMBDA d :
                       \E i \in 1..Len(filters.technologies) :
                           InList(filters.technologies[i],
                                  GetOr(d, "technologies", ListV(<<>>)).l))
              ELSE f3
        f5 == IF filters.has_email
              THEN SelectSeq(f4, LAMBDA d : Truthy(Get(d, "email")))
              ELSE f4
        f6 == IF filters.has_social
              THEN SelectSeq(f5, LAMBDA d :
                       /\ Truthy(Get(d, "social_links"))
                       /\ Cardinality(DOMAIN d["social_links"].d) > 0)
              ELSE f5
        f7 == IF filters.min_revenue # "0"
              THEN SelectSeq(f6, LAMBDA d :
                       GetOr(d, "revenue", IntV(0)).n >= revenue_map[filters.min_revenue])
              ELSE f6
    IN  IF data = <<>> THEN <<>> ELSE f7

\* apply_filters
apply_filters(data, filters) ==
    LET f1 == IF filters.min_employees > 0
              THEN SelectSeq(data, LAMBDA d :
                       GetOr(d, "employees", IntV(0)).n >= filters.min_employees)
              ELSE data
        f2 == IF filters.industry # <<>>
              THEN SelectSeq(f1, LAMBDA d : InList(Get(d, "industry"), filters.industry))
              ELSE f1
        locations == LET parts == split_on(filters.location, ",")
                     IN  [i \in 1..Len(parts) |-> Lower(ws_strip(parts[i]))]
        f3 == IF filters.location # <<>>
              THEN SelectSeq(f2, LAMBDA d :
                       \E i \in 1..Len(locations) :
                           FindFrom(Lower(location_str(GetOr(d, "location", StrV(<<>>)))),
                                    locations[i], 1) # 0)
              ELSE f2
        f4 == IF filters.technologies # <<>>
              THEN SelectSeq(f3, LAMBDA d :
                       \E i \in 1..Len(filters.technologies) :
                           InList(filters.technologies[i],
                                  GetOr(d, "technologies", ListV(<<>>)).l))
              ELSE f3
        f5 == IF filters.has_email
              THEN SelectSeq(f4, LAMBDA d : Truthy(Get(d, "email")))
              ELSE f4
        f6 == IF filters.has_social
              THEN SelectSeq(f5, LAMBDA d :
                       /\ Truthy(Get(d, "social_links"))
                       /\ Cardinality(DOMAIN d["social_links"].d) > 0)
              ELSE f5
        f7 == IF filters.min_revenue # "0"
              THEN SelectSeq(f6, LAMBDA d :
                       GetOr(d, "revenue", IntV(0)).n >= revenue_map[filters.min_revenue])
              ELSE f6
    IN  IF data = <<>> THEN <<>> ELSE f7

\* --------------------------------------------- app/scraper/cohesive_clone.py

\* A fetched page, as what each extractor finds on it.  names lists, in the
\* order of the selector chain, the raw value at each selector (<<>> where
\* the element is missing or its value empty); broken names the extractors
\* that raise what they do not catch, such as _extract_keywords on a
\* <meta name="keywords"> without content.
NoSignals ==
    [broken |-> {}, names |-> <<>>, email |-> NoneV, phone |-> NoneV, employees |-> NoneV,
     location |-> NoneV, industry |-> NoneV, social_links |-> DictV(EmptyDict),
     technologies |-> ListV(<<>>), meta_data |-> DictV(EmptyDict),
     contact_info |-> DictV(EmptyDict), description |-> NoneV,
     founded_year |-> NoneV, company_size |-> NoneV, revenue_range |-> NoneV,
     headquarters |-> NoneV, keywords |-> ListV(<<>>)]

\* _extract_company_name: the cleaned value of the first selector whose raw
\* value is non-empty
RECURSIVE _extract_company_name(_)
_extract_company_name(names) ==
    IF names = <<>> THEN NoneV
    ELSE IF names[1] # <<>> THEN StrV(clean_text(names[1]))
    ELSE _extract_company_name(Tail(names))

\* _extract_location: the same loop over location_selectors, with
\* driver.find_element in place of wait.until
_extract_location(values) == _extract_company_name(values)

\* the company_data mapping scrape_attempt builds
company_data(page, url) ==
    [name |-> _extract_company_name(page.names),
     website |-> StrV(url),
     email |-> page.email,
     phone |-> page.phone,
     employees |-> page.employees,
     location |-> page.location,
     industry |-> page.industry,
     social_links |-> page.social_links,
     technologies |-> page.technologies,
     meta_data |-> page.meta_data,
     contact_info |-> page.contact_info,
     description |-> page.description,
     founded_year |-> page.founded_year,
     company_size |-> page.company_size,
     revenue_range |-> page.revenue_range,
     headquarters |-> page.headquarters,
     keywords |-> page.keywords]

\* scrape_attempt, once driver.get(url) has loaded page
scrape_attempt(page, url) == DictV(clean_data(company_data(page, url)))

\* no extractor is called inside a try of scrape_attempt
scrape_attempt_raises(page) == page.broken # {}

\* what scrape_company_info hands its caller
Return(v) == [value |-> v, kind |-> "return"]

\* return result, without the fallback to {}
result_bare(result) == result

\* return result or {}
result_or_empty(result) == IF Truthy(result) THEN result ELSE DictV(EmptyDict)

\* except Exception as e: ...; return {}
on_exception == Return(DictV(EmptyDict))

\* ----------------------------------------- BaseScraper.retry_on_failure

\* the cleanup between attempts: delete_all_cookies(), _execute_stealth_js()
cleanup_steps_stealth_first == <<"stealth", "cookies">>
cleanup_steps == <<"cookies", "stealth">>

\* max_retries = max_retries or SCRAPING_CONFIG.get('retry_attempts', 3)
effective_max_retries(arg) ==
    IF Truthy(arg) THEN arg.n ELSE GetOr(SCRAPING_CONFIG, "retry_attempts", 3)

RECURSIVE Pow2(_)
Pow2(n) == IF n = 0 THEN 1 ELSE 2 * Pow2(n - 1)

\* a backoff that multiplies where the code raises to a power
backoff_linear(attempt, delay) == (2 * attempt) * delay

\* wait = (2 ** attempt) * delay
backoff(attempt, delay) == Pow2(attempt) * delay

\* lines 172-192 of main without the test for an empty valid_results
batch_outcome_unchecked(valid, filters, stored, display_ok) ==
    LET filtered_results == apply_filters(valid, filters)
    IN  [stored |-> valid,
         shown |-> IF filtered_results # <<>>
                   THEN <<MsgSuccess(Len(filtered_results)),
                          IF display_ok THEN MsgResults(filtered_results)
                          ELSE ErrDisplay>>
                   ELSE <<ErrNoMatch>>]

\* lines 172-192 of main: what is stored in the session state and what is
\* shown, given the validated results
batch_outcome(valid, filters, stored, display_ok) ==
    IF valid = <<>> THEN [stored |-> stored, shown |-> <<ErrNoValid>>]
    ELSE LET filtered_results == apply_filters(valid, filters)
         IN  [stored |-> valid,
              shown |-> IF filtered_results # <<>>
                        THEN <<MsgSuccess(Len(filtered_results)),
                               IF display_ok THEN MsgResults(filtered_results)
                               ELSE ErrDisplay>>
                        ELSE <<ErrNoMatch>>]

\* -------------------------------------------------- CacheHandler

\* generate_cache_key: the string that is hashed stands for its digest
generate_cache_key(url) == extract_domain(url) \o <<"_">> \o url

\* ------------------------------------------------------------ the inputs

MaxAttempts == 3    \* the largest configured retry_attempts
MaxDelay == 2       \* the largest configured delay_between_requests
MaxUrls == 2        \* the longest URL list entered
MaxBatches == 2     \* how often "Start Scraping" is pressed

U_aio == <<"h","t","t","p",":","/","/","a",".","i","o">>
U_test == <<"h","t","t","p",":","/","/","t","e","s","t",".","i","o">>
U_bare == <<"a",".","i","o">>
\* the lines a user may enter: a good URL, one that validators.url takes and
\* validate_url refuses, one that validators.url refuses
UrlLines == {U_aio, U_test, U_bare}

E_ok == <<"a","@","b",".","i","o">>
N_spaced == <<" ","A"," "," ","b"," ">>
N_tag == <<"<","b",">","A","b","<","/","b",">">>
N_punct == <<"!","!">>

\* the pages a fetch may load
Pages ==
    {[NoSignals EXCEPT !.names = <<<<>>, N_spaced>>],
     [NoSignals EXCEPT !.names = <<N_tag>>, !.email = StrV(E_ok)],
     [NoSignals EXCEPT !.names = <<N_punct>>],
     [NoSignals EXCEPT !.email = StrV(E_ok)],
     [NoSignals EXCEPT !.names = <<N_tag>>, !.broken = {"keywords"}]}

\* render_filters with nothing chosen
NoFilters ==
    [min_employees |-> 0, industry |-> <<>>, location |-> <<>>,
     founded_after |-> 2000, technologies |-> <<>>, has_email |-> FALSE,
     has_social |-> FALSE, min_revenue |-> "0"]
\* the filters the sidebar may hold
FilterSpecs ==
    {NoFilters, [NoFilters EXCEPT !.has_email = TRUE],
     [NoFilters EXCEPT !.min_revenue = "1M"]}

\* the members of a sequence
Range(s) == {s[i] : i \in 1..Len(s)}

\* the sequences over S of length 0..n
SeqsUpTo(S, n) == UNION {[1..k -> S] : k \in 0..n}

\* ------------------------------------------------------------- the state

VARIABLES
    pc,              \* where main and the scraper stand
    batches,         \* how many runs of main have started
    valid_urls,      \* main: the validated URL list
    idx,             \* main: the 1-based position of the loop in valid_urls
    url,             \* scrape_company_info: its argument
    results,         \* main: the records accumulated by the loop
    valid_results,   \* main: validate_scraped_data(results)
    session,         \* st.session_state.scraping_results
    session_before,  \* session when the run started
    ui,              \* the messages this run has shown
    passed,          \* the URLs this run has passed to scrape_company_info
    driver,          \* self._driver: "none", "live" or "quit"
    max_retries,     \* retry_on_failure: max_retries
    attempt,         \* retry_on_failure: the loop index
    calls,           \* retry_on_failure: how often func was invoked
    raised,          \* retry_on_failure: how many invocations raised
    wait,            \* retry_on_failure: the backoff computed last
    sleeps,          \* retry_on_failure: the sleeps done, with their attempt
    events,          \* retry_on_failure: what it has done, in order
    loaded,          \* retry_on_failure: the page the last attempt loaded
    retry_state,     \* "none", "running", "returned" or "propagated"
    retry_value,     \* what retry_on_failure returned
    ret,             \* what scrape_company_info handed to main
    cache,           \* the cache directory: key -> entry
    probe_in,        \* the argument of a function called on its own
    probe_out,       \* its result, or that it is yet to be called
    now,             \* the clock: datetime.now() in half hours where the
                     \* cache is on its own, time.time() in tenths of a
                     \* second where the rate limiter is
    last_request_time,  \* self.last_request_time
    last_op          \* the last call of the cache, with its result

config_vars == <<retry_attempts, delay_between_requests, driver_file_exists>>
main_vars == <<pc, batches, valid_urls, idx, results, valid_results, session,
               session_before, ui, passed>>
main_vars_but_pc == <<batches, valid_urls, idx, results, valid_results, session,
                      session_before, ui, passed>>
scraper_vars == <<url, driver, ret>>
retry_vars == <<max_retries, attempt, calls, raised, wait, sleeps, events,
                loaded, retry_state, retry_value>>
probe_vars == <<probe_in, probe_out>>
clock_vars == <<now, last_op, last_request_time>>
vars == <<config_vars, main_vars, scraper_vars, retry_vars, cache, probe_vars,
          clock_vars>>

NoPage == [loaded |-> FALSE]

RetryIdle ==
    /\ max_retries = 0 /\ attempt = 0 /\ calls = 0 /\ raised = 0 /\ wait = 0
    /\ sleeps = <<>> /\ events = <<>> /\ loaded = NoPage
    /\ retry_state = "none" /\ retry_value = NoneV

MachineIdle ==
    /\ pc = "idle" /\ batches = 0 /\ valid_urls = <<>> /\ idx = 0
    /\ results = <<>> /\ valid_results = <<>> /\ session = <<>>
    /\ session_before = <<>> /\ ui = <<>> /\ passed = <<>>
    /\ url = <<>> /\ driver = "none" /\ ret = Return(DictV(EmptyDict))
    /\ last_request_time = 0
    /\ RetryIdle

MachineInit ==
    /\ MachineIdle
    /\ cache = EmptyDict

ProbeIdle == probe_in = EmptyDict /\ probe_out = "unset"

NoOp == [fn |-> "none"]
CacheIdle == now = 0 /\ last_op = NoOp

Init ==
    /\ retry_attempts \in {0, 1, MaxAttempts}
    /\ delay_between_requests \in {1, MaxDelay}
    /\ driver_file_exists \in BOOLEAN
    /\ MachineInit
    /\ ProbeIdle
    /\ CacheIdle

\* ------------------------------------------------------------ the actions

\* main, up to the loop: "Start Scraping" is pressed with lines entered; a
\* new CohesiveScraper is made, whose _driver is None
StartBatch(lines) ==
    /\ pc \in {"idle", "done"}
    /\ batches < MaxBatches
    /\ batches' = batches + 1
    /\ LET v == validate_urls(lines)
       IN  /\ valid_urls' = v.urls
           /\ ui' = v.shown
           /\ pc' = IF v.urls = <<>> THEN "idle" ELSE "loop"
           /\ idx' = IF v.urls = <<>> THEN 0 ELSE 1
    /\ results' = <<>>
    /\ valid_results' = <<>>
    /\ passed' = <<>>
    /\ session_before' = session
    /\ driver' = "none"
    /\ UNCHANGED <<session, url, ret, retry_vars, cache, config_vars, probe_vars,
                   clock_vars>>

\* the loop calls scrape_company_info(url); an invalid URL returns {} at once
ScrapeCall ==
    /\ pc = "loop"
    /\ idx <= Len(valid_urls)
    /\ url' = valid_urls[idx]
    /\ passed' = Append(passed, valid_urls[idx])
    /\ IF ~validate_url(valid_urls[idx])
       THEN pc' = "ret" /\ ret' = Return(DictV(EmptyDict))
       ELSE pc' = "get_driver" /\ UNCHANGED ret
    /\ UNCHANGED <<batches, valid_urls, idx, results, valid_results, session,
                   session_before, ui, driver, retry_vars, cache, config_vars,
                   probe_vars,
                   clock_vars>>

\* retry_on_failure is entered with max_retries = None
EnterRetry ==
    /\ max_retries' = effective_max_retries(NoneV)
    /\ attempt' = 0 /\ calls' = 0 /\ raised' = 0 /\ wait' = 0
    /\ sleeps' = <<>>
    /\ events' = <<>>
    /\ loaded' = NoPage
    /\ retry_state' = "running"
    /\ retry_value' = NoneV

\* get_driver: the driver at hand is returned, be it quit or not; else the
\* driver file must exist and Chrome must start
GetDriver ==
    /\ pc = "get_driver"
    /\ \/ /\ driver # "none"
          /\ EnterRetry
          /\ pc' = "attempt"
          /\ UNCHANGED <<driver, ret>>
       \/ /\ driver = "none"
          /\ ~driver_file_exists
          /\ ret' = on_exception
          /\ pc' = "ret"
          /\ UNCHANGED <<driver, retry_vars>>
       \/ /\ driver = "none"
          /\ driver_file_exists
          /\ \E started \in BOOLEAN :
                IF started
                THEN /\ driver' = "live"
                     /\ EnterRetry
                     /\ pc' = "attempt"
                     /\ UNCHANGED ret
                ELSE /\ ret' = on_exception
                     /\ pc' = "ret"
                     /\ UNCHANGED <<driver, retry_vars>>
    /\ UNCHANGED <<main_vars_but_pc, url, cache, config_vars, probe_vars,
                   clock_vars>>

\* one pass of the for loop: func() is invoked; it raises on a quit driver and
\* may raise on a live one, else it returns the cleaned record of the page
AttemptCall ==
    /\ pc = "attempt"
    /\ attempt < max_retries
    /\ calls' = calls + 1
    /\ events' = Append(events, "attempt")
    /\ \E outcome \in {[loaded |-> FALSE]} \cup
                      (IF driver = "live"
                       THEN {[loaded |-> TRUE, page |-> p] : p \in Pages}
                       ELSE {}) :
          /\ loaded' = IF outcome.loaded THEN outcome.page ELSE NoPage
          /\ IF ~outcome.loaded \/ scrape_attempt_raises(outcome.page)
             THEN /\ raised' = raised + 1
                  /\ wait' = backoff(attempt, SCRAPING_CONFIG.delay_between_requests)
                  /\ pc' = "cleanup"
                  /\ UNCHANGED <<retry_state, retry_value>>
             ELSE /\ retry_value' = scrape_attempt(outcome.page, url)
                  /\ retry_state' = "returned"
                  /\ pc' = "quit"
                  /\ UNCHANGED <<raised, wait>>
    /\ UNCHANGED <<max_retries, attempt, sleeps, main_vars_but_pc, scraper_vars,
                   cache, config_vars, probe_vars,
                   clock_vars>>

\* the cleanup in the except branch: delete_all_cookies raises on a quit
\* driver and may raise on a live one, and then leaves retry_on_failure for
\* the handler of scrape_company_info; _execute_stealth_js swallows its errors
Cleanup ==
    /\ pc = "cleanup"
    /\ IF driver # "none"
       THEN \E cookies_ok \in IF driver = "live" THEN BOOLEAN ELSE {FALSE} :
               IF cookies_ok
               THEN /\ events' = events \o cleanup_steps
                    /\ pc' = "sleep"
                    /\ UNCHANGED <<retry_state, ret>>
               ELSE /\ events' = Append(events, "cookies raised")
                    /\ retry_state' = "propagated"
                    /\ ret' = on_exception
                    /\ pc' = "ret"
       ELSE pc' = "sleep" /\ UNCHANGED <<events, retry_state, ret>>
    /\ UNCHANGED <<max_retries, attempt, calls, raised, wait, sleeps, retry_value,
                   loaded,
                   main_vars_but_pc, url, driver, cache, config_vars, probe_vars,
                   clock_vars>>

\* time.sleep(wait), and the loop goes on
Sleep ==
    /\ pc = "sleep"
    /\ sleeps' = Append(sleeps, [attempt |-> attempt, wait |-> wait])
    /\ events' = Append(events, "sleep")
    /\ UNCHANGED loaded
    /\ attempt' = attempt + 1
    /\ pc' = "attempt"
    /\ UNCHANGED <<max_retries, calls, raised, wait, retry_state, retry_value,
                   main_vars_but_pc, scraper_vars, cache, config_vars, probe_vars,
                   clock_vars>>

\* the loop is exhausted: retry_on_failure returns None
RetryExhausted ==
    /\ pc = "attempt"
    /\ attempt >= max_retries
    /\ retry_state' = "returned"
    /\ retry_value' = NoneV
    /\ pc' = "quit"
    /\ UNCHANGED <<max_retries, attempt, calls, raised, wait, sleeps, events,
                   loaded, main_vars_but_pc, scraper_vars, cache, config_vars, probe_vars,
                   clock_vars>>

\* driver.quit(); return result or {}.  _driver keeps the quit driver.
QuitAndReturn ==
    /\ pc = "quit"
    /\ driver' = "quit"
    /\ ret' = Return(result_or_empty(retry_value))
    /\ pc' = "ret"
    /\ UNCHANGED <<retry_vars, main_vars_but_pc, url, cache, config_vars, probe_vars,
                   clock_vars>>

\* main takes what scrape_company_info handed back and the loop moves on
TakeResult ==
    /\ pc = "ret"
    /\ IF ret.kind = "raise"
       THEN ui' = Append(ui, ErrScraping(url)) /\ UNCHANGED results
       ELSE /\ results' = IF Truthy(ret.value) THEN Append(results, ret.value.d)
                          ELSE results
            /\ UNCHANGED ui
    /\ idx' = idx + 1
    /\ pc' = "loop"
    /\ ret' = Return(DictV(EmptyDict))
    /\ max_retries' = 0 /\ attempt' = 0 /\ calls' = 0 /\ raised' = 0 /\ wait' = 0
    /\ sleeps' = <<>> /\ events' = <<>> /\ loaded' = NoPage
    /\ retry_state' = "none" /\ retry_value' = NoneV
    /\ UNCHANGED <<batches, valid_urls, valid_results, session, session_before,
                   passed, url, driver, cache, config_vars, probe_vars,
                   clock_vars>>

\* after the loop: validate, store, filter and show
FinishBatch(filters, display_ok) ==
    /\ pc = "loop"
    /\ idx > Len(valid_urls)
    /\ LET valid == validate_scraped_data(results)
           out == batch_outcome(valid, filters, session, display_ok)
       IN  /\ valid_results' = valid
           /\ session' = out.stored
           /\ ui' = ui \o out.shown
    /\ pc' = "done"
    /\ UNCHANGED <<batches, valid_urls, idx, results, session_before, passed,
                   scraper_vars, retry_vars, cache, config_vars, probe_vars,
                   clock_vars>>

Next ==
    \/ \E lines \in SeqsUpTo(UrlLines, MaxUrls) : StartBatch(lines)
    \/ ScrapeCall
    \/ GetDriver
    \/ AttemptCall
    \/ Cleanup
    \/ Sleep
    \/ RetryExhausted
    \/ QuitAndReturn
    \/ TakeResult
    \/ \E filters \in FilterSpecs, display_ok \in BOOLEAN :
          FinishBatch(filters, display_ok)

Spec == Init /\ [][Next]_vars

\* ------------------------------------------- validate_data on its own

N_plain == <<"A","b">>
E_blocked == <<"a","@","T","e","s","t",".","c","o","m">>
E_noat == <<"a","b",".","i","o">>
E_tld == <<"a","@","b",".","i">>
Ph9 == <<"1","2","3","4","5","6","7","8","9">>
Ph10f == <<"+","1"," ","2","3","4","-","5","6","7","-","8","9","0">>
Ph15 == <<"1","2","3","4","5","6","7","8","9","0","1","2","3","4","5">>
Ph16 == <<"1","2","3","4","5","6","7","8","9","0","1","2","3","4","5","6">>

\* a field left out of the record
Absent == [t |-> "absent"]
NameChoices == {Absent, NoneV, StrV(<<>>), StrV(N_plain)}
WebsiteChoices == {Absent, StrV(<<>>), StrV(U_aio), StrV(U_test), StrV(U_bare)}
EmailChoices == {Absent, StrV(<<>>), StrV(E_ok), StrV(E_blocked), StrV(E_noat),
                 StrV(E_tld)}
PhoneChoices == {Absent, StrV(Ph9), StrV(Ph10f), StrV(Ph15), StrV(Ph16)}

\* the record holding the fields of choice that are not Absent
RecordOf(choice) ==
    [k \in {f \in DOMAIN choice : choice[f] # Absent} |-> choice[k]]

ProbeInputs ==
    {RecordOf([name |-> n, website |-> w, email |-> e, phone |-> p]) :
        n \in NameChoices, w \in WebsiteChoices, e \in EmailChoices,
        p \in PhoneChoices}

InitValidate ==
    /\ retry_attempts = MaxAttempts
    /\ delay_between_requests = MaxDelay
    /\ driver_file_exists = TRUE
    /\ MachineInit
    /\ probe_in \in ProbeInputs
    /\ probe_out = "unset"
    /\ CacheIdle

\* validate_data(probe_in) is called
Validate ==
    /\ probe_out = "unset"
    /\ probe_out' = IF validate_data(probe_in) THEN "True" ELSE "False"
    /\ UNCHANGED <<probe_in, config_vars, main_vars, scraper_vars, retry_vars,
                   cache, clock_vars>>

NextValidate == Validate

SpecValidate == InitValidate /\ [][NextValidate]_vars

\* ------------------------------------------------ CacheHandler on its own

\* json.dump takes None, str, int, bool, list and dict, and raises TypeError
\* on anything else, a set for one
RECURSIVE json_serializable(_)
json_serializable(v) ==
    CASE v.t = "list" -> \A i \in 1..Len(v.l) : json_serializable(v.l[i])
      [] v.t = "dict" -> \A k \in DOMAIN v.d : json_serializable(v.d[k])
      [] v.t = "set" -> FALSE
      [] OTHER -> TRUE

\* the JSON document json.dump writes for v
RECURSIVE json_dump(_)
json_dump(v) ==
    CASE v.t = "none" -> [j |-> "null"]
      [] v.t = "str" -> [s |-> v.s, j |-> "string"]
      [] v.t = "int" -> [n |-> v.n, j |-> "number"]
      [] v.t = "bool" -> [j |-> IF v.b THEN "true" ELSE "false"]
      [] v.t = "list" ->
            [j |-> "array", items |-> [i \in 1..Len(v.l) |-> json_dump(v.l[i])]]
      [] v.t = "dict" ->
            [j |-> "object", members |-> [k \in DOMAIN v.d |-> json_dump(v.d[k])]]

\* the Python value json.load makes of a JSON document
RECURSIVE json_load(_)
json_load(doc) ==
    CASE doc.j = "null" -> NoneV
      [] doc.j = "string" -> StrV(doc.s)
      [] doc.j = "number" -> IntV(doc.n)
      [] doc.j = "true" -> BoolV(TRUE)
      [] doc.j = "false" -> BoolV(FALSE)
      [] doc.j = "array" ->
            ListV([i \in 1..Len(doc.items) |-> json_load(doc.items[i])])
      [] doc.j = "object" ->
            DictV([k \in DOMAIN doc.members |-> json_load(doc.members[k])])

\* a file of the cache directory: a JSON document, or the text a write that
\* broke off has left, which json.load cannot parse
JsonFile(doc) == [kind |-> "json", doc |-> doc]
PartialFile == [kind |-> "partial"]

\* datetime.isoformat and datetime.fromisoformat, the clock counting half
\* hours: the text of a time, and the time of a text (-1: ValueError)
isoformat(time) == IntStr(time)
RECURSIVE digits_value(_)
digits_value(s) ==
    IF s = <<>> THEN 0
    ELSE 10 * digits_value(Before(s, Len(s)))
         + (CHOOSE d \in 0..9 : DigitSeq[d + 1] = s[Len(s)])
fromisoformat(s) ==
    IF s # <<>> /\ AllIn(s, DigitCh) THEN digits_value(s) ELSE -1

\* age.total_seconds()
total_seconds(age) == age * 1800

S_1_0 == <<"1",".","0">>
S_scraper == <<"s","c","r","a","p","e","r">>

\* the cache_data mapping save_to_cache builds
cache_data(data, time) ==
    [timestamp |-> StrV(isoformat(time)),
     data |-> DictV(data),
     metadata |-> DictV([version |-> StrV(S_1_0),
                         source |-> StrV(S_scraper),
                         cache_date |-> StrV(IntStr(time \div 48))])]

\* the directory with the file of key set to file
WriteFile(store, key, file) ==
    [k \in DOMAIN store \cup {key} |-> IF k = key THEN file ELSE store[k]]

\* save_to_cache(key, data) at the given time.  io tells what the file
\* system does: "ok", "refused" (mkdir or open raises: nothing is written) or
\* "broken" (the write raises after open has truncated the file).  json.dump
\* raises likewise, in the middle of the file, when data is not serializable.
save_to_cache(store, key, data, time, io) ==
    IF io = "refused"
    THEN [store |-> store, result |-> Return(BoolV(FALSE))]
    ELSE IF io = "broken" \/ ~json_serializable(DictV(data))
    THEN [store |-> WriteFile(store, key, PartialFile),
          result |-> Return(BoolV(FALSE))]
    ELSE [store |-> WriteFile(store, key,
                              JsonFile(json_dump(DictV(cache_data(data, time))))),
          result |-> Return(BoolV(TRUE))]

\* all(k in cached for k in ['timestamp', 'data'])
cache_structure_lax(cached) ==
    {"timestamp", "data"} \subseteq DOMAIN cached.d

\* all(k in cached for k in ['timestamp', 'data', 'metadata'])
cache_structure_ok(cached) ==
    {"timestamp", "data", "metadata"} \subseteq DOMAIN cached.d

\* age.total_seconds() >= max_age_hours * 3600
is_stale_at_limit(age, max_age_hours) ==
    total_seconds(age) >= max_age_hours * 3600

\* age.total_seconds() > (max_age_hours * 3600)
is_stale(age, max_age_hours) ==
    total_seconds(age) > max_age_hours * 3600

\* an exception raised in a try block
Raised == [kind |-> "raise"]

\* load_from_cache(key, max_age_hours) at the given time.  io tells whether
\* the file can be read ("ok") or open raises ("unreadable").
load_from_cache(store, key, max_age_hours, time, io) ==
    LET try ==
            IF key \notin DOMAIN store THEN Return(NoneV)
            ELSE IF io = "unreadable" THEN Raised
            ELSE IF store[key].kind = "partial" THEN Raised
            ELSE LET cached == json_load(store[key].doc)
                 IN  IF cached.t # "dict" THEN
                         \* a list or a string lacks the keys or cannot be
                         \* indexed by them, None and numbers raise TypeError
                         IF cached.t \in {"list", "str"} THEN Return(NoneV)
                         ELSE Raised
                     ELSE IF ~cache_structure_ok(cached) THEN Return(NoneV)
                     ELSE IF cached.d["timestamp"].t # "str" THEN Raised
                     ELSE LET cache_time == fromisoformat(cached.d["timestamp"].s)
                          IN  IF cache_time < 0 THEN Raised
                              ELSE IF is_stale(time - cache_time, max_age_hours)
                              THEN Return(NoneV)
                              ELSE Return(cached.d["data"])
    IN  IF try.kind = "raise" THEN Return(NoneV) ELSE try

MaxNow == 4         \* how many half hours the clock runs

\* a page that shows an e-mail address, as _extract_email and
\* _extract_contact_info see it
P_contact ==
    [NoSignals EXCEPT !.names = <<N_tag>>, !.email = StrV(E_ok),
                      !.contact_info = DictV([emails |-> SetV({E_ok})])]

\* the records handed to the cache: one typed by hand, the one
\* scrape_attempt makes of P_contact, one holding a number and a list
R_plain == [name |-> StrV(N_plain), website |-> StrV(U_aio)]
R_scraped == scrape_attempt(P_contact, U_aio).d
R_other ==
    [technologies |-> ListV(<<StrV(N_plain)>>), employees |-> IntV(5),
     name |-> StrV(N_plain), website |-> StrV(U_test)]
CacheRecords == {R_plain, R_scraped, R_other}

K_aio == generate_cache_key(U_aio)
K_test == generate_cache_key(U_test)
CacheKeys == {K_aio, K_test}

TtlChoices == {0, 1}

\* what the file of K_aio may hold when the program starts: an entry of an
\* earlier run, entries lacking a key, a file cut short, a document that is
\* no mapping, an entry whose timestamp is no ISO time
StoredFiles ==
    {JsonFile(json_dump(DictV(cache_data(R_plain, 0)))),
     JsonFile(json_dump(DictV([timestamp |-> StrV(isoformat(0)),
                               data |-> DictV(R_plain)]))),
     JsonFile(json_dump(DictV([data |-> DictV(R_plain),
                               metadata |-> DictV(EmptyDict)]))),
     PartialFile,
     JsonFile(json_dump(ListV(<<>>))),
     JsonFile(json_dump(IntV(5))),
     JsonFile(json_dump(DictV([cache_data(R_plain, 0)
                                  EXCEPT !.timestamp = StrV(<<"x">>)])))}

InitCache ==
    /\ retry_attempts = MaxAttempts
    /\ delay_between_requests = MaxDelay
    /\ driver_file_exists = TRUE
    /\ MachineIdle
    /\ ProbeIdle
    /\ cache \in {EmptyDict} \cup {WriteFile(EmptyDict, K_aio, f) : f \in StoredFiles}
    /\ CacheIdle

\* save_to_cache(key, data) is called
Save(key, data, io) ==
    /\ LET r == save_to_cache(cache, key, data, now, io)
       IN  /\ cache' = r.store
           /\ last_op' = [fn |-> "save_to_cache", key |-> key, data |-> data,
                          io |-> io, at |-> now, result |-> r.result]
    /\ UNCHANGED <<now, last_request_time, config_vars, main_vars, scraper_vars,
                   retry_vars, probe_vars>>

\* load_from_cache(key, max_age_hours) is called
Load(key, max_age_hours, io) ==
    /\ last_op' = [fn |-> "load_from_cache", key |-> key,
                   max_age_hours |-> max_age_hours, io |-> io, at |-> now,
                   result |-> load_from_cache(cache, key, max_age_hours, now, io)]
    /\ UNCHANGED <<now, last_request_time, cache, config_vars, main_vars,
                   scraper_vars, retry_vars, probe_vars>>

\* half an hour passes
Tick ==
    /\ now < MaxNow
    /\ now' = now + 1
    /\ UNCHANGED <<last_op, last_request_time, cache, config_vars, main_vars,
                   scraper_vars, retry_vars, probe_vars>>

NextCache ==
    \/ \E key \in CacheKeys, data \in CacheRecords,
          io \in {"ok", "refused", "broken"} : Save(key, data, io)
    \/ \E key \in CacheKeys, max_age_hours \in TtlChoices,
          io \in {"ok", "unreadable"} : Load(key, max_age_hours, io)
    \/ Tick

SpecCache == InitCache /\ [][NextCache]_vars

\* ------------------------------------- BaseScraper.handle_rate_limiting

RATE_LIMITS == [default |-> [requests_per_second |-> 1, burst_size |-> 5]]

\* how long handle_rate_limiting('default') sleeps when called at time with
\* the jitter drawn, in tenths of a second
handle_rate_limiting(last, time, jitter) ==
    LET min_interval == 10 \div RATE_LIMITS["default"].requests_per_second
        time_since_last == time - last
    IN  IF time_since_last < min_interval
        THEN min_interval - time_since_last + jitter
        ELSE 0

MaxClock == 45      \* how far the clock of the rate limiter runs

\* the scraper is constructed well after the epoch
InitRate ==
    /\ retry_attempts = MaxAttempts
    /\ delay_between_requests = MaxDelay
    /\ driver_file_exists = TRUE
    /\ MachineInit
    /\ ProbeIdle
    /\ now = 20
    /\ last_op = NoOp

\* handle_rate_limiting() is called; jitter = random.uniform(0.1, 0.5)
HandleRateLimiting ==
    \E jitter \in 1..5 :
        LET sleep_time == handle_rate_limiting(last_request_time, now, jitter)
        IN  /\ now + sleep_time <= MaxClock
            /\ now' = now + sleep_time
            /\ last_request_time' = now + sleep_time
            /\ last_op' = [fn |-> "handle_rate_limiting", jitter |-> jitter,
                           slept |-> sleep_time]
            /\ UNCHANGED <<cache, config_vars, main_vars, scraper_vars,
                           retry_vars, probe_vars>>

\* time passes between two requests
Pass ==
    /\ \E d \in 1..12 : now + d <= MaxClock /\ now' = now + d
    /\ last_op' = NoOp
    /\ UNCHANGED <<last_request_time, cache, config_vars, main_vars,
                   scraper_vars, retry_vars, probe_vars>>

NextRate ==
    \/ HandleRateLimiting
    \/ Pass

SpecRate == InitRate /\ [][NextRate]_vars

\* ------------------------------------------------------- ContactExtractor

\* SCRAPING_PATTERNS['email']:
\* [a-zA-Z0-9._%+-]+@[a-zA-Z0-9.-]+\.[a-zA-Z]{2,}
PatternLocalCh == LetterCh \cup DigitCh \cup {".", "_", "%", "+", "-"}
PatternDomainCh == LetterCh \cup DigitCh \cup {".", "-"}

\* the length of the longest run of characters of cs that starts s
RECURSIVE run_length(_, _)
run_length(s, cs) ==
    IF s # <<>> /\ s[1] \in cs THEN 1 + run_length(Tail(s), cs) ELSE 0

\* the length of the match of the pattern at the start of s, or 0.  The local
\* part is the whole run before the "@"; of the run after it the pattern
\* takes, backtracking from the longest, the part that ends in a "." and two
\* or more letters.
email_match_length(s) ==
    LET local == run_length(s, PatternLocalCh)
        after == From(s, local + 2)
        run == run_length(after, PatternDomainCh)
        dots == {p \in 1..run : /\ p >= 2
                                /\ after[p] = "."
                                /\ run_length(From(after, p + 1), LetterCh) >= 2}
        last == CHOOSE p \in dots : \A q \in dots : q <= p
    IN  IF local = 0 \/ local + 1 > Len(s) \/ s[local + 1] # "@" \/ dots = {}
        THEN 0
        ELSE local + 1 + last + run_length(From(after, last + 1), LetterCh)

\* re.findall(email_pattern, text): the matches from left to right, none
\* overlapping another
RECURSIVE findall_email(_)
findall_email(text) ==
    IF text = <<>> THEN <<>>
    ELSE LET n == email_match_length(text)
         IN  IF n = 0 THEN findall_email(Tail(text))
             ELSE <<Before(text, n + 1)>> \o findall_email(From(text, n + 1))

\* a dot-separated name none of whose parts is empty
dot_atom(s) == \A i \in 1..Len(split_on(s, ".")) : split_on(s, ".")[i] # <<>>

\* validate_email of the email_validator package: TRUE where it returns,
\* FALSE where it raises EmailNotValidError.  It raises on an address whose
\* local part or domain is no dot-atom or whose domain has a label with a
\* hyphen at an end; on any other address it raises or not as the package's
\* deliverability and special-use checks decide (accepted).
validate_email_format(email, accepted) ==
    LET parts == split_on(email, "@")
        domain_labels == split_on(parts[2], ".")
    IN  /\ Len(parts) = 2
        /\ dot_atom(parts[1])
        /\ dot_atom(parts[2])
        /\ Len(domain_labels) >= 2
        /\ \A i \in 1..Len(domain_labels) :
              /\ domain_labels[i][1] # "-"
              /\ domain_labels[i][Len(domain_labels[i])] # "-"
        /\ accepted

S_domain_com == <<"d","o","m","a","i","n",".","c","o","m">>
S_example_org == <<"e","x","a","m","p","l","e",".","o","r","g">>
S_test_org == <<"t","e","s","t",".","o","r","g">>
S_tempmail_com == <<"t","e","m","p","m","a","i","l",".","c","o","m">>
S_throwaway_com == <<"t","h","r","o","w","a","w","a","y",".","c","o","m">>

invalid_domains ==
    {S_example_com, S_test_com, S_domain_com, S_localhost, S_example_org,
     S_test_org}
disposable_domains == {S_tempmail_com, S_throwaway_com}

\* ContactExtractor.validate_email, without the check against
\* invalid_domains
validate_email_unlisted(email, accepted) ==
    IF email = <<>> \/ FindFrom(email, <<"@">>, 1) = 0 THEN FALSE
    ELSE IF ~validate_email_format(email, accepted) THEN FALSE
    ELSE LET domain == Lower(split_on(email, "@")[2])
         IN  domain \notin disposable_domains

\* ContactExtractor.validate_email
validate_email(email, accepted) ==
    IF email = <<>> \/ FindFrom(email, <<"@">>, 1) = 0 THEN FALSE
    ELSE IF ~validate_email_format(email, accepted) THEN FALSE
    ELSE LET domain == Lower(split_on(email, "@")[2])
         IN  IF domain \in invalid_domains THEN FALSE
             ELSE domain \notin disposable_domains

\* valid_emails.add(email): the members of a set in the order of their
\* first add
set_add(members, x) ==
    IF \E i \in 1..Len(members) : members[i] = x THEN members
    ELSE Append(members, x)

\* the loop of extract_emails over the matches; refused holds the addresses
\* the package turns down for reasons other than their structure
RECURSIVE valid_emails_of(_, _, _)
valid_emails_of(emails, refused, valid_emails) ==
    IF emails = <<>> THEN valid_emails
    ELSE LET email == ws_strip(emails[1])
         IN  valid_emails_of(Tail(emails), refused,
                             IF validate_email(email, email \notin refused)
                             THEN set_add(valid_emails, email)
                             ELSE valid_emails)

\* ContactExtractor.extract_emails
extract_emails(text, refused) ==
    IF text = <<>> THEN <<>>
    ELSE valid_emails_of(findall_email(Lower(text)), refused, <<>>)

\* c.join(words)
RECURSIVE join_with(_, _)
join_with(words, c) ==
    IF words = <<>> THEN <<>>
    ELSE IF Len(words) = 1 THEN words[1]
    ELSE words[1] \o <<c>> \o join_with(Tail(words), c)

\* ------------------------------------- URLHandler.remove_tracking_params

\* urlparse(u) as remove_tracking_params uses it: the fragment is what
\* follows the first "#", the query what follows the first "?" before it,
\* and scheme, netloc, path and params are the text before both, which
\* urlunparse puts back as it was
url_parts(u) ==
    LET h == FindFrom(u, <<"#">>, 1)
        no_fragment == IF h = 0 THEN u ELSE Before(u, h)
        q == FindFrom(no_fragment, <<"?">>, 1)
    IN  [before |-> IF q = 0 THEN no_fragment ELSE Before(no_fragment, q),
         query |-> IF q = 0 THEN <<>> ELSE From(no_fragment, q + 1),
         fragment |-> IF h = 0 THEN <<>> ELSE From(u, h + 1)]

\* urlunparse: an empty query or fragment is left out with its mark
urlunparse(before, query, fragment) ==
    before \o (IF query = <<>> THEN <<>> ELSE <<"?">> \o query)
           \o (IF fragment = <<>> THEN <<>> ELSE <<"#">> \o fragment)

\* the characters quote_plus escapes, with their escapes
Escapes ==
    [c \in {"/", "+", "%", "=", "&", ":", "?"} |->
        CASE c = "/" -> <<"%","2","F">>
          [] c = "+" -> <<"%","2","B">>
          [] c = "%" -> <<"%","2","5">>
          [] c = "=" -> <<"%","3","D">>
          [] c = "&" -> <<"%","2","6">>
          [] c = ":" -> <<"%","3","A">>
          [] c = "?" -> <<"%","3","F">>]

\* quote_plus(s): letters, digits and "_.-~" stay, a space becomes "+",
\* the rest is escaped
RECURSIVE quote_plus(_)
quote_plus(s) ==
    IF s = <<>> THEN <<>>
    ELSE (IF s[1] = " " THEN <<"+">>
          ELSE IF s[1] \in DOMAIN Escapes THEN Escapes[s[1]]
          ELSE <<s[1]>>) \o quote_plus(Tail(s))

\* unquote of s with "+" read as a space, as parse_qs decodes names and
\* values
RECURSIVE unquote_plus(_)
unquote_plus(s) ==
    IF s = <<>> THEN <<>>
    ELSE IF s[1] = "+" THEN <<" ">> \o unquote_plus(Tail(s))
    ELSE IF Len(s) >= 3 /\ \E c \in DOMAIN Escapes : Escapes[c] = SubSeq(s, 1, 3)
    THEN <<CHOOSE c \in DOMAIN Escapes : Escapes[c] = SubSeq(s, 1, 3)>>
         \o unquote_plus(From(s, 4))
    ELSE <<s[1]>> \o unquote_plus(Tail(s))

\* params[name].append(value), the names kept in the order of their first
\* appearance as a dict keeps them
add_value(params, name, value) ==
    IF \E i \in 1..Len(params) : params[i].key = name
    THEN [i \in 1..Len(params) |->
            IF params[i].key = name
            THEN [key |-> name, values |-> Append(params[i].values, value)]
            ELSE params[i]]
    ELSE Append(params, [key |-> name, values |-> <<value>>])

\* parse_qs over the fields of the query: a field without "=" has the empty
\* value, and a field with an empty value is dropped (keep_blank_values is
\* False)
RECURSIVE parse_fields(_, _)
parse_fields(fields, params) ==
    IF fields = <<>> THEN params
    ELSE LET field == fields[1]
             eq == FindFrom(field, <<"=">>, 1)
             name == IF eq = 0 THEN field ELSE Before(field, eq)
             value == IF eq = 0 THEN <<>> ELSE From(field, eq + 1)
         IN  parse_fields(Tail(fields),
                          IF value = <<>> THEN params
                          ELSE add_value(params, unquote_plus(name),
                                         unquote_plus(value)))

\* parse_qs(query)
parse_qs(query) == parse_fields(split_on(query, "&"), <<>>)

tracking_params ==
    {<<"u","t","m","_","s","o","u","r","c","e">>,
     <<"u","t","m","_","m","e","d","i","u","m">>,
     <<"u","t","m","_","c","a","m","p","a","i","g","n">>,
     <<"u","t","m","_","t","e","r","m">>,
     <<"u","t","m","_","c","o","n","t","e","n","t">>,
     <<"f","b","c","l","i","d">>,
     <<"g","c","l","i","d">>,
     <<"r","e","f">>,
     <<"s","o","u","r","c","e">>,
     <<"m","e","d","i","u","m">>}

\* any(t in k.lower() for t in tracking_params)
is_tracking(k) == \E w \in tracking_params : FindFrom(Lower(k), w, 1) # 0

\* urlencode(clean_params, doseq=True)
RECURSIVE urlencode(_)
urlencode(params) ==
    IF params = <<>> THEN <<>>
    ELSE LET k == quote_plus(params[1].key)
             pairs == [i \in 1..Len(params[1].values) |->
                          k \o <<"=">> \o quote_plus(params[1].values[i])]
             rest == urlencode(Tail(params))
         IN  IF rest = <<>> THEN join_with(pairs, "&")
             ELSE join_with(pairs, "&") \o <<"&">> \o rest

\* URLHandler.remove_tracking_params, which keeps the tracking parameters
remove_tracking_params_none(u) ==
    LET parsed == url_parts(u)
    IN  IF parsed.query # <<>>
        THEN urlunparse(parsed.before, urlencode(parse_qs(parsed.query)),
                        parsed.fragment)
        ELSE u

\* URLHandler.remove_tracking_params
remove_tracking_params(u) ==
    LET parsed == url_parts(u)
    IN  IF parsed.query # <<>>
        THEN LET params == parse_qs(parsed.query)
                 clean_params == SelectSeq(params, LAMBDA p : ~is_tracking(p.key))
             IN  urlunparse(parsed.before, urlencode(clean_params), parsed.fragment)
        ELSE u

\* ------------------------------------- the utility functions on their own

MaxText == 5        \* the longest text given to clean_text

\* the characters of the texts: a word character, a space, a character
\* clean_text removes, a punctuation mark it keeps, the start of a tag
TextCh == {"a", " ", "!", ".", "<"}
CleanTextCalls ==
    {[text |-> x, fn |-> "clean_text"] : x \in SeqsUpTo(TextCh, MaxText)}

MaxTokens == 3      \* how many words a text given to extract_emails has

T_ok == <<"a","@","b",".","i","o">>
T_upper == <<"A","@","B",".","i","o">>
T_example == <<"t","@","e","x","a","m","p","l","e",".","c","o","m">>
T_test_org == <<"t","@","T","e","s","t",".","o","r","g">>
T_sub == <<"t","@","x",".","t","e","s","t",".","c","o","m">>
T_dot == <<".","a","@","b",".","i","o">>
T_dots == <<"a","@","b",".",".","i","o">>
T_word == <<"m","a","i","l",":">>
\* the words of a page: addresses that pass, that are listed, that are
\* misshapen, and a word that is no address
EmailTokens == {T_ok, T_upper, T_example, T_test_org, T_sub, T_dot, T_dots, T_word}
ExtractEmailsCalls ==
    {[text |-> join(ws), fn |-> "extract_emails"] :
        ws \in SeqsUpTo(EmailTokens, MaxTokens)}

MaxParams == 3      \* how many parameters a query has

F_a1 == <<"a","=","1">>
F_a2 == <<"a","=","2">>
F_blank == <<"b","=">>
F_ref == <<"r","e","f","=","x">>
F_pref == <<"P","r","e","f","=","1">>
F_path == <<"c","=","x","/","y">>
F_d == <<"d","=","1">>
\* the parameters of a query: plain ones, one name twice, an empty value, a
\* tracking name, a name that holds one, a value that quote_plus escapes
QueryFields == {F_a1, F_a2, F_blank, F_ref, F_pref, F_path, F_d}
\* http://a.io/ with a query of 0..MaxParams parameters
UrlWith(fields) ==
    U_aio \o <<"/">> \o (IF fields = <<>> THEN <<>>
                          ELSE <<"?">> \o join_with(fields, "&"))
RemoveTrackingCalls ==
    {[text |-> UrlWith(fs), fn |-> "remove_tracking_params"] :
        fs \in SeqsUpTo(QueryFields, MaxParams)}

\* ---- enrichment: derived fields and the lead score ----

\* re.match(r'^[a-zA-Z0-9_.+-]+@[a-zA-Z0-9-]+\.[a-zA-Z0-9-.]+$', email)
is_valid_email(email) ==
    /\ Truthy(email)
    /\ LET a == FindFrom(email.s, <<"@">>, 1)
           rest == From(email.s, a + 1)
           dot == FindFrom(rest, <<".">>, 1)
       IN  /\ a > 1
           /\ AllIn(Before(email.s, a), LetterCh \cup DigitCh \cup {"_", ".", "+", "-"})
           /\ dot > 1
           /\ AllIn(Before(rest, dot), LetterCh \cup DigitCh \cup {"-"})
           /\ Len(rest) > dot
           /\ AllIn(From(rest, dot + 1), LetterCh \cup DigitCh \cup {"-", "."})

\* s.replace(old, "")
RECURSIVE replace_away(_, _)
replace_away(s, old) ==
    LET i == FindFrom(s, old, 1)
    IN  IF i = 0 THEN s
        ELSE Before(s, i) \o replace_away(From(s, i + Len(old)), old)

extract_domain_from_url(website) ==
    IF ~Truthy(website) THEN <<>>
    ELSE ws_strip(replace_away(urlparse(website.s).netloc, <<"w", "w", "w", ".">>))

extract_company_from_email(email) ==
    IF ~Truthy(email) \/ FindFrom(email.s, <<"@">>, 1) = 0 THEN <<>>
    ELSE ws_strip(split_on(split_on(email.s, "@")[2], ".")[1])

score_lead(lead) ==
    (IF is_valid_email(GetOr(lead, "email", StrV(<<>>))) THEN 30 ELSE 0)
        + (IF Truthy(Get(lead, "company")) THEN 20 ELSE 0)
        + (IF Truthy(Get(lead, "linkedin")) THEN 25 ELSE 0)
        + (IF Truthy(Get(lead, "website")) THEN 25 ELSE 0)

\* what the Proxycurl service answers is reply; {} without a key or a website
enrich_with_proxycurl(website, api_key, reply) ==
    IF ~api_key \/ ~Truthy(website) THEN EmptyDict ELSE reply

\* d.update(e)
dict_update(d, e) ==
    [k \in DOMAIN d \cup DOMAIN e |-> IF k \in DOMAIN e THEN e[k] ELSE d[k]]

enrich_lead(lead, api_key, reply) ==
    LET email == GetOr(lead, "email", StrV(<<>>))
        website == GetOr(lead, "website", StrV(<<>>))
        derived ==
            dict_update(lead,
                [email_valid |-> BoolV(is_valid_email(email)),
                 domain |-> StrV(extract_domain_from_url(website)),
                 company_extracted |-> StrV(extract_company_from_email(email))])
        enriched ==
            IF api_key /\ Truthy(website)
            THEN dict_update(derived, enrich_with_proxycurl(website, api_key, reply))
            ELSE derived
    IN  dict_update(enriched, [lead_score |-> IntV(score_lead(enriched))])

MaxRecords == 2     \* how many records are given to apply_filters

S_Technology == <<"T","e","c","h","n","o","l","o","g","y">>
S_Retail == <<"R","e","t","a","i","l">>
S_Python == <<"P","y","t","h","o","n">>
S_AWS == <<"A","W","S">>
S_Berlin == <<"B","e","r","l","i","n">>
S_Paris == <<"P","a","r","i","s">>
S_ber_x == <<"b","e","r",","," ","x">>
S_linkedin_url == <<"l","i","n","k","e","d","i","n",".","c","o","m","/","c","o","m","p","a","n","y","/","a">>

\* the records to filter: one with every field a filter reads, one at the
\* employee minimum, one with the required fields alone, one with an e-mail
\* address and a technology
D_full ==
    [email |-> StrV(E_ok), industry |-> StrV(S_Technology),
     location |-> StrV(S_Berlin), technologies |-> ListV(<<StrV(S_Python)>>),
     employees |-> IntV(10),
     social_links |-> DictV([linkedin |-> StrV(S_linkedin_url)]),
     name |-> StrV(N_plain), website |-> StrV(U_aio),
     revenue |-> IntV(2000000)]
D_small ==
    [industry |-> StrV(S_Retail), location |-> StrV(S_Paris),
     employees |-> IntV(5), name |-> StrV(N_plain), website |-> StrV(U_aio)]
D_bare == [name |-> StrV(N_plain), website |-> StrV(U_aio)]
D_tech ==
    [email |-> StrV(E_ok), technologies |-> ListV(<<StrV(S_AWS)>>),
     name |-> StrV(N_plain), website |-> StrV(U_aio)]
\* the record scrape_attempt assembles of a page that states a revenue
S_revenue_range == <<"$","5","M","-","$","1","0","M">>
D_scraped ==
    scrape_attempt([NoSignals EXCEPT !.names = <<N_plain>>,
                                     !.revenue_range = StrV(S_revenue_range)],
                   U_aio).d
FilterRecords == {D_full, D_small, D_bare, D_tech, D_scraped}

\* what render_filters may hand over
FilterChoices ==
    {[NoFilters EXCEPT !.min_employees = m, !.industry = i, !.location = l,
                       !.technologies = tc, !.has_email = e, !.has_social = s,
                       !.min_revenue = r] :
        m \in {0, 5}, i \in {<<>>, <<StrV(S_Technology)>>},
        l \in {<<>>, S_ber_x},
        tc \in {<<>>, <<StrV(S_Python), StrV(S_AWS)>>},
        e \in BOOLEAN, s \in BOOLEAN, r \in {"0", "1M", "5M"}}

ApplyFiltersCalls ==
    {[fn |-> "apply_filters", data |-> d, filters |-> f] :
        d \in SeqsUpTo(FilterRecords, MaxRecords), f \in FilterChoices}

U_www == <<"h","t","t","p",":","/","/","w","w","w",".","a",".","i","o">>

\* the leads to enrich: the records above, a lead under the keys score_lead
\* reads, and one whose address has no dot after the @
D_lead ==
    [email |-> StrV(E_ok), website |-> StrV(U_www),
     linkedin |-> StrV(S_linkedin_url), company |-> StrV(N_plain)]
D_nodot == [email |-> StrV(E_noat \o <<"@", "b">>), name |-> StrV(N_plain)]
Leads == FilterRecords \cup {D_lead, D_nodot}

\* what Proxycurl may answer: nothing, a company, a company with no website
Y_company == [name |-> StrV(N_plain), website |-> StrV(U_aio)]
Y_nosite == [name |-> StrV(N_plain), website |-> NoneV]
ProxycurlReplies == {EmptyDict, Y_company, Y_nosite}

EnrichLeadCalls == {[fn |-> "enrich_lead", lead |-> d] : d \in Leads}

MaxChain == 3       \* how many selectors of a chain find a value or none

\* what a selector may find: nothing, punctuation alone, a padded name, a name
RawValues == {<<>>, N_punct, N_spaced, N_plain}
SelectorChainCalls ==
    {[values |-> v, fn |-> f] :
        f \in {"_extract_company_name", "_extract_location"},
        v \in SeqsUpTo(RawValues, MaxChain)}

MaxItems == 2       \* the longest list in a record given to clean_data

\* the values of a record to clean: scalars, lists of scalars, and mappings
\* of one key to either
ScalarValues == {NoneV, StrV(<<>>), StrV(N_punct), StrV(N_plain), IntV(0)}
ListValues == {ListV(l) : l \in SeqsUpTo(ScalarValues \ {NoneV}, MaxItems)}
DictValues == {DictV([content |-> v]) : v \in ScalarValues \cup ListValues}
CleanDataCalls ==
    {[data |-> [meta_data |-> w, name |-> v], fn |-> "clean_data"] :
        v \in ScalarValues, w \in ScalarValues \cup ListValues \cup DictValues}

UtilCalls ==
    CleanTextCalls \cup ExtractEmailsCalls \cup RemoveTrackingCalls
        \cup ApplyFiltersCalls \cup EnrichLeadCalls \cup SelectorChainCalls
        \cup CleanDataCalls

Pending == [done |-> FALSE]
Done(v) == [value |-> v, done |-> TRUE]

InitUtils ==
    /\ retry_attempts = MaxAttempts
    /\ delay_between_requests = MaxDelay
    /\ driver_file_exists = TRUE
    /\ MachineInit
    /\ CacheIdle
    /\ probe_in \in UtilCalls
    /\ probe_out = Pending

\* clean_text(text) is called
CallCleanText ==
    /\ probe_in.fn = "clean_text"
    /\ probe_out = Pending
    /\ probe_out' = Done(clean_text(probe_in.text))
    /\ UNCHANGED <<probe_in, config_vars, main_vars, scraper_vars, retry_vars,
                   cache, clock_vars>>

\* extract_emails(text) is called
CallExtractEmails ==
    /\ probe_in.fn = "extract_emails"
    /\ probe_out = Pending
    /\ \E refused \in SUBSET Range(findall_email(Lower(probe_in.text))) :
          probe_out' = Done(extract_emails(probe_in.text, refused))
    /\ UNCHANGED <<probe_in, config_vars, main_vars, scraper_vars, retry_vars,
                   cache, clock_vars>>

\* remove_tracking_params(url) is called
CallRemoveTracking ==
    /\ probe_in.fn = "remove_tracking_params"
    /\ probe_out = Pending
    /\ probe_out' = Done(remove_tracking_params(probe_in.text))
    /\ UNCHANGED <<probe_in, config_vars, main_vars, scraper_vars, retry_vars,
                   cache, clock_vars>>

\* apply_filters(data, filters) is called; data is copied, never changed
CallApplyFilters ==
    /\ probe_in.fn = "apply_filters"
    /\ probe_out = Pending
    /\ probe_out' = Done(apply_filters(probe_in.data, probe_in.filters))
    /\ UNCHANGED <<probe_in, config_vars, main_vars, scraper_vars, retry_vars,
                   cache, clock_vars>>

\* enrich_lead(lead) is called, with or without PROXYCURL_API_KEY set
CallEnrichLead ==
    /\ probe_in.fn = "enrich_lead"
    /\ probe_out = Pending
    /\ \E api_key \in BOOLEAN, reply \in ProxycurlReplies :
           probe_out' = Done(enrich_lead(probe_in.lead, api_key, reply))
    /\ UNCHANGED <<probe_in, config_vars, main_vars, scraper_vars, retry_vars,
                   cache, clock_vars>>

\* a selector chain is walked over the values its selectors find
CallSelectorChain ==
    /\ probe_in.fn \in {"_extract_company_name", "_extract_location"}
    /\ probe_out = Pending
    /\ probe_out' =
           Done(IF probe_in.fn = "_extract_company_name"
                THEN _extract_company_name(probe_in.values)
                ELSE _extract_location(probe_in.values))
    /\ UNCHANGED <<probe_in, config_vars, main_vars, scraper_vars, retry_vars,
                   cache, clock_vars>>

\* clean_data(data) is called
CallCleanData ==
    /\ probe_in.fn = "clean_data"
    /\ probe_out = Pending
    /\ probe_out' = Done(DictV(clean_data(probe_in.data)))
    /\ UNCHANGED <<probe_in, config_vars, main_vars, scraper_vars, retry_vars,
                   cache, clock_vars>>

NextUtils ==
    \/ CallCleanData
    \/ CallSelectorChain
    \/ CallCleanText
    \/ CallExtractEmails
    \/ CallRemoveTracking
    \/ CallApplyFilters
    \/ CallEnrichLead

SpecUtils == InitUtils /\ [][NextUtils]_vars

\* ------------------------------------------------------------ the claims

\* C1: scrape_company_info hands its caller a mapping whatever the URL and
\* the fetcher do: it never raises and never returns None.
C1_ReturnsMapping ==
    pc = "ret" => ret.kind = "return" /\ ret.value.t = "dict"

\* every fetch attempt of a scrape has failed and {} comes back
C1_Witness ==
    /\ pc = "ret"
    /\ retry_state = "returned"
    /\ max_retries > 0
    /\ raised = max_retries
    /\ ret = Return(DictV(EmptyDict))

\* C2: retry_on_failure invokes the action at most max_retries times, returns
\* the result of the first invocation that does not raise without invoking it
\* again, and returns None once max_retries invocations have all raised.
C2_RetryContract ==
    /\ calls <= max_retries
    /\ (retry_state = "returned" /\ retry_value # NoneV => raised = calls - 1)
    /\ (/\ retry_state \in {"returned", "propagated"}
        /\ calls = max_retries
        /\ raised = max_retries
        => retry_state = "returned" /\ retry_value = NoneV)

\* C3: the sleep after the failure of the attempt with index i is
\* delay_between_requests * 2^i, and every failed attempt that the loop has
\* left behind was followed by its sleep.
C3_Backoff ==
    /\ \A i \in 1..Len(sleeps) :
          /\ sleeps[i].attempt = i - 1
          /\ sleeps[i].wait = delay_between_requests * (2 ^ (i - 1))
    /\ (pc = "attempt" => Len(sleeps) = raised)

\* three attempts have failed and three sleeps were done
C3_Witness == Len(sleeps) = 3 /\ raised = 3 /\ delay_between_requests = 2

\* C4: the loop passes every URL of the validated list to scrape_company_info
\* once and in order, and every URL that gave no record is reported to the
\* user with a message of its own.
C4_EveryUrlOnceAndReported ==
    pc = "done" =>
        /\ passed = valid_urls
        /\ Cardinality({i \in 1..Len(ui) :
                           ui[i].kind = "error" /\ ui[i].about = "scraping"})
               = Len(valid_urls) - Len(results)

\* C5: a run whose list of valid records is empty shows the aggregate error,
\* shows neither the success message nor the results, and leaves the stored
\* scraping results as they were.
C5_AggregateFailure ==
    pc = "done" /\ valid_results = <<>> =>
        /\ ErrNoValid \in Range(ui)
        /\ \A i \in 1..Len(ui) : ui[i].kind \notin {"success", "results"}
        /\ session = session_before

\* a run without a valid record ends while an earlier run's results are stored
C5_Witness ==
    /\ pc = "done"
    /\ valid_results = <<>>
    /\ results # <<>>
    /\ session # <<>>

\* C6: every record handed to the filter stage satisfies validate_data.
C6_AccumulatedRecordsValid ==
    pc = "done" => \A i \in 1..Len(valid_results) : validate_data(valid_results[i])

\* C7: the record of a successful scrape of url has website equal to url,
\* and so a website that validate_url accepts.
C7_WebsiteIsUrl ==
    pc = "ret" /\ ret.kind = "return" /\ Truthy(ret.value) =>
        /\ Get(ret.value.d, "website") = StrV(url)
        /\ validate_url(Get(ret.value.d, "website").s)

\* the email pattern, said of positions: a local part, "@", a domain, ".",
\* and two or more letters
WellFormedEmail(e) ==
    LET n == IF e # <<>> /\ e[Len(e)] = "\n" THEN Len(e) - 1 ELSE Len(e)
    IN  \E a \in 2..n : \E d \in (a + 2)..(n - 2) :
           /\ e[a] = "@"
           /\ e[d] = "."
           /\ \A i \in 1..(a - 1) : e[i] \in EmailLocalCh
           /\ \A i \in (a + 1)..(d - 1) : e[i] \in EmailDomainCh
           /\ \A i \in (d + 1)..n : e[i] \in LetterCh

HasTruthy(r, f) == f \in DOMAIN r /\ Truthy(r[f])

\* what C8 says validate_data decides, with the default required fields
C8_Expected(r) ==
    /\ HasTruthy(r, "name")
    /\ HasTruthy(r, "website")
    /\ validate_url(r["website"].s)
    /\ (HasTruthy(r, "email") =>
           /\ WellFormedEmail(r["email"].s)
           /\ \A a \in 1..Len(r["email"].s) :
                 r["email"].s[a] = "@" =>
                     Lower(From(r["email"].s, a + 1))
                         \notin {S_example_com, S_test_com, S_localhost})
    /\ (HasTruthy(r, "phone") =>
           Cardinality({i \in 1..Len(r["phone"].s) : r["phone"].s[i] \in DigitCh})
               \in 10..15)

\* C8: with the required fields name and website, validate_data is true
\* exactly of the records with truthy name and website, a website that
\* validate_url accepts, an email (if any) that is well-formed and off the
\* invalid-domain list, and a phone (if any) of 10 to 15 digits.
C8_ValidateDataExact ==
    probe_out # "unset" => (probe_out = "True" <=> C8_Expected(probe_in))

\* a record without email, with a phone of exactly ten digits, is accepted
C8_Witness ==
    /\ probe_out = "True"
    /\ "email" \notin DOMAIN probe_in
    /\ HasTruthy(probe_in, "phone")
    /\ Len(digits_of(probe_in["phone"].s)) = 10

\* C9: validate_data refuses a record that lacks a field of the configured
\* required_fields list, which names email.
C9_ConfiguredFieldsRequired ==
    probe_out # "unset" =>
        \A i \in 1..Len(DATA_PROCESSING.required_fields) :
            ~HasTruthy(probe_in, DATA_PROCESSING.required_fields[i])
                => probe_out = "False"

\* C10: once a scrape has returned a record, the cache holds that record
\* under generate_cache_key(url).
C10_CachedAfterSuccess ==
    pc = "ret" /\ ret.kind = "return" /\ Truthy(ret.value) =>
        /\ generate_cache_key(url) \in DOMAIN cache
        /\ cache[generate_cache_key(url)].data = ret.value.d

\* C19: one scraper serves a run's URLs one after the other with a live
\* browser: no page is ever fetched through a driver that was quit.
C19_NoFetchOnQuitDriver ==
    [][calls' = calls + 1 => driver = "live"]_vars

\* C20: the retry budget is whole for every URL: on a scraper that has
\* already finished a scrape, a scrape that fails has made all of its
\* max_retries attempts, the backoff counted from 0.
C20_RetryReentrant ==
    (pc = "ret" /\ idx > 1 /\ driver = "quit" /\ retry_state # "none"
        /\ ~(retry_state = "returned" /\ retry_value # NoneV)) =>
        /\ calls = max_retries
        /\ \A i \in 1..Len(sleeps) : sleeps[i].attempt = i - 1

\* C11: a load_from_cache(k, ttl) made right after save_to_cache(k, r), the
\* file system doing what it is asked, returns r, whatever was saved before;
\* and a save under one key leaves what every other key returns as it was.
C11_LoadAfterSave ==
    [][/\ (/\ last_op.fn = "save_to_cache" /\ last_op.io = "ok"
           /\ last_op'.fn = "load_from_cache" /\ last_op'.io = "ok"
           /\ last_op'.key = last_op.key /\ last_op.at = now) =>
              last_op'.result = Return(DictV(last_op.data))
       /\ (last_op'.fn = "save_to_cache" /\ now' = now) =>
              \A k \in CacheKeys \ {last_op'.key}, ttl \in TtlChoices :
                  load_from_cache(cache', k, ttl, now, "ok")
                      = load_from_cache(cache, k, ttl, now, "ok")]_vars

\* an entry with all its parts: a mapping holding timestamp, data and
\* metadata, the timestamp the text of a time
WellFormedEntry(file) ==
    /\ file.kind = "json"
    /\ file.doc.j = "object"
    /\ {"timestamp", "data", "metadata"} \subseteq DOMAIN file.doc.members
    /\ file.doc.members["timestamp"].j = "string"
    /\ fromisoformat(file.doc.members["timestamp"].s) >= 0

\* the age in half hours of a well-formed entry at the time of the last call
AgeAtCall(file) == last_op.at - fromisoformat(file.doc.members["timestamp"].s)

\* the last call was a load of a readable, well-formed entry
LoadedWellFormed ==
    /\ last_op.fn = "load_from_cache"
    /\ last_op.io = "ok"
    /\ last_op.key \in DOMAIN cache
    /\ WellFormedEntry(cache[last_op.key])

\* C12: load_from_cache returns None for an entry older than max_age_hours
\* and the payload for a well-formed entry of at most that age; no load
\* changes the store, so a stale entry stays where it is.
C12_StaleSkippedNotRemoved ==
    /\ [](LoadedWellFormed =>
            IF AgeAtCall(cache[last_op.key]) > 2 * last_op.max_age_hours
            THEN last_op.result = Return(NoneV)
            ELSE last_op.result
                    = Return(json_load(cache[last_op.key].doc.members["data"])))
    /\ [][last_op'.fn = "load_from_cache" /\ now' = now => cache' = cache]_vars

\* a stale entry was read as absent and is still in the store
C12_Witness ==
    /\ LoadedWellFormed
    /\ AgeAtCall(cache[last_op.key]) > 2 * last_op.max_age_hours
    /\ last_op.result = Return(NoneV)

\* the file of the last call's key lacks a part, or is no JSON mapping
Malformed(file) ==
    \/ file.kind = "partial"
    \/ file.doc.j # "object"
    \/ ~({"timestamp", "data", "metadata"} \subseteq DOMAIN file.doc.members)

\* C13: neither cache operation raises: a load of an entry that is absent,
\* unreadable or lacks timestamp, data or metadata returns None, and a save
\* whose write fails returns False.
C13_CacheFailuresContained ==
    /\ last_op.fn # "none" => last_op.result.kind = "return"
    /\ (/\ last_op.fn = "load_from_cache"
        /\ \/ last_op.key \notin DOMAIN cache
           \/ last_op.io = "unreadable"
           \/ Malformed(cache[last_op.key])) => last_op.result = Return(NoneV)
    /\ last_op.fn = "save_to_cache" /\ last_op.io # "ok" =>
          last_op.result = Return(BoolV(FALSE))

\* an entry without metadata was read as a miss
C13_Witness ==
    /\ last_op.fn = "load_from_cache"
    /\ last_op.io = "ok"
    /\ last_op.key \in DOMAIN cache
    /\ cache[last_op.key].kind = "json"
    /\ cache[last_op.key].doc.j = "object"
    /\ DOMAIN cache[last_op.key].doc.members = {"timestamp", "data"}
    /\ last_op.result = Return(NoneV)

\* C14: clean_text is idempotent: cleaning a cleaned text changes nothing.
C14_CleanTextIdempotent ==
    probe_in.fn = "clean_text" /\ probe_out # Pending =>
        clean_text(probe_out.value) = probe_out.value

\* the domains the claim lists
ListedDomains ==
    {S_example_com, S_test_com, S_localhost, S_example_org, S_test_org}

\* an address of sound structure: one "@", a local part and a domain that
\* neither start nor end with "." nor hold "..", a domain of two labels or
\* more, no label with "-" at an end
SoundStructure(e) ==
    LET at == FindFrom(e, <<"@">>, 1)
        local == Before(e, at)
        domain == From(e, at + 1)
        sound(s) == /\ s # <<>>
                    /\ s[1] # "." /\ s[Len(s)] # "."
                    /\ FindFrom(s, <<".", ".">>, 1) = 0
    IN  /\ at # 0
        /\ FindFrom(domain, <<"@">>, 1) = 0
        /\ sound(local) /\ sound(domain)
        /\ FindFrom(domain, <<".">>, 1) # 0
        /\ domain[1] # "-" /\ domain[Len(domain)] # "-"
        /\ FindFrom(domain, <<"-", ".">>, 1) = 0
        /\ FindFrom(domain, <<".", "-">>, 1) = 0

ParamsOf(u) ==
    LET q == url_parts(u).query
        pair(field) ==
            LET eq == FindFrom(field, <<"=">>, 1)
            IN  [key |-> unquote_plus(IF eq = 0 THEN field ELSE Before(field, eq)),
                 value |-> unquote_plus(IF eq = 0 THEN <<>> ELSE From(field, eq + 1))]
    IN  IF q = <<>> THEN <<>>
        ELSE [i \in 1..Len(split_on(q, "&")) |-> pair(split_on(q, "&")[i])]

\* C16: remove_tracking_params drops the parameters whose name holds a
\* tracking word and keeps all others, values and order as they were; a URL
\* without tracking parameters comes back as it was, and the operation done
\* twice gives what it gives done once.
C16_RemoveTrackingParams ==
    probe_in.fn = "remove_tracking_params" /\ probe_out # Pending =>
        LET kept == SelectSeq(ParamsOf(probe_in.text),
                              LAMBDA p : ~is_tracking(p.key))
        IN  /\ ParamsOf(probe_out.value) = kept
            /\ kept = ParamsOf(probe_in.text) => probe_out.value = probe_in.text
            /\ remove_tracking_params(probe_out.value) = probe_out.value

\* the predicates of a FilterSpec that are switched on, each as what it asks
\* of one record
ActivePredicates(filters) ==
    LET words == split_on(filters.location, ",")
    IN  [min_employees |->
            [active |-> filters.min_employees > 0,
             holds |-> [d \in FilterRecords |->
                 (IF "employees" \in DOMAIN d THEN d["employees"].n ELSE 0)
                     >= filters.min_employees]],
         industry |->
            [active |-> Len(filters.industry) > 0,
             holds |-> [d \in FilterRecords |->
                 "industry" \in DOMAIN d /\ d["industry"] \in Range(filters.industry)]],
         location |->
            [active |-> Len(filters.location) > 0,
             holds |-> [d \in FilterRecords |->
                 \E w \in Range(words) :
                     FindFrom(Lower(IF "location" \in DOMAIN d
                                    THEN d["location"].s ELSE <<>>),
                              Lower(ws_strip(w)), 1) # 0]],
         technologies |->
            [active |-> Len(filters.technologies) > 0,
             holds |-> [d \in FilterRecords |->
                 /\ "technologies" \in DOMAIN d
                 /\ Range(d["technologies"].l) \cap Range(filters.technologies) # {}]],
         has_email |->
            [active |-> filters.has_email,
             holds |-> [d \in FilterRecords |->
                 "email" \in DOMAIN d /\ d["email"].s # <<>>]],
         has_social |->
            [active |-> filters.has_social,
             holds |-> [d \in FilterRecords |->
                 "social_links" \in DOMAIN d /\ DOMAIN d["social_links"].d # {}]],
         min_revenue |->
            [active |-> filters.min_revenue # "0",
             holds |-> [d \in FilterRecords |->
                 (IF "revenue" \in DOMAIN d THEN d["revenue"].n ELSE 0)
                     >= (IF filters.min_revenue \in DOMAIN revenue_map
                         THEN revenue_map[filters.min_revenue] ELSE 0)]]]

ScoreSignals(e) ==
    LET links == GetOr(e, "social_links", DictV(EmptyDict)).d
    IN  [email |-> is_valid_email(GetOr(e, "email", StrV(<<>>))),
         company |-> Truthy(Get(e, "name")) \/ Truthy(Get(e, "company")),
         linkedin |-> Truthy(Get(links, "linkedin")) \/ Truthy(Get(e, "linkedin")),
         website |-> Truthy(Get(e, "website"))]

\* C18: the lead score of an enriched record is 30 for a valid e-mail
\* address plus 20 for a company name plus 25 for a LinkedIn link plus 25
\* for a website, so it is 100 when all four are there and never more.
C18_LeadScore ==
    probe_in.fn = "enrich_lead" /\ probe_out # Pending =>
        LET e == probe_out.value
            has == ScoreSignals(e)
        IN  /\ e["lead_score"].n =
                  (IF has.email THEN 30 ELSE 0) + (IF has.company THEN 20 ELSE 0)
                      + (IF has.linkedin THEN 25 ELSE 0)
                      + (IF has.website THEN 25 ELSE 0)
            /\ e["lead_score"].n <= 100

\* what retry_on_failure does from one attempt to the next
FailureRound == <<"attempt", "cookies", "stealth", "sleep">>

\* C21: after a failed attempt come the clearing of the cookies, the
\* stealth script and the backoff sleep, in that order, and no attempt
\* starts before all three are done.
C21_CleanupSleepAttempt ==
    \A i \in 1..Len(events) :
        /\ events[i] = "attempt" /\ i > 1 =>
              i > 4 /\ SubSeq(events, i - 4, i - 1) = FailureRound
        /\ events[i] = "sleep" =>
              i > 3 /\ SubSeq(events, i - 3, i - 1) = SubSeq(FailureRound, 1, 3)

\* a second attempt has started, after one failure, its cleanup and its sleep
C21_Witness == events = FailureRound \o <<"attempt">>

\* C22: when the scrape of the next URL begins, every record the loop holds
\* has been validated, and so kept or dropped.
C22_ValidatedBeforeNextUrl ==
    [][Len(passed') = Len(passed) + 1 /\ Len(passed) > 0 =>
          \A i \in 1..Len(results) :
              \E j \in 1..Len(valid_results) : valid_results[j] = results[i]]_vars

\* C25: a selector chain returns the cleaned value of the first selector
\* whose cleaned value is non-empty, and None when there is no such selector.
C25_FirstCleanedValueWins ==
    /\ probe_in.fn \in {"_extract_company_name", "_extract_location"}
    /\ probe_out # Pending
    => LET values == probe_in.values
           winners == {i \in 1..Len(values) : clean_text(values[i]) # <<>>}
       IN  IF winners = {} THEN probe_out.value = NoneV
           ELSE \E i \in winners :
                   /\ \A j \in winners : i <= j
                   /\ probe_out.value = StrV(clean_text(values[i]))

\* C23: an attempt whose page makes an extractor raise still returns a
\* record: it is not counted as failed, the fields of the extractors that
\* raised are left out, and every other field is as on a sound page.
C23_ExtractorFailureContained ==
    [][calls' = calls + 1 /\ loaded' # NoPage /\ loaded'.broken # {} =>
          LET sound == scrape_attempt([loaded' EXCEPT !.broken = {}], url).d
              kept == DOMAIN sound \ loaded'.broken
          IN  /\ raised' = raised
              /\ retry_state' = "returned"
              /\ retry_value' = DictV([k \in kept |-> sound[k]])]_vars

\* C24: when the configured driver file does not exist, get_driver's error
\* reaches the caller of scrape_company_info as an error: nothing is
\* retried, and no empty result is handed back for the batch to go on with.
C24_ConfigErrorSurfaced ==
    [][pc = "get_driver" /\ driver = "none" /\ ~driver_file_exists =>
          /\ calls' = calls
          /\ ret'.kind = "raise"]_vars

\* a value that is not None, not an empty string, list or mapping, and
\* holds none
RECURSIVE NoEmptyValue(_)
NoEmptyValue(v) ==
    CASE v.t = "none" -> FALSE
      [] v.t = "str" -> v.s # <<>>
      [] v.t = "list" ->
            v.l # <<>> /\ \A i \in 1..Len(v.l) : NoEmptyValue(v.l[i])
      [] v.t = "dict" ->
            DOMAIN v.d # {} /\ \A k \in DOMAIN v.d : NoEmptyValue(v.d[k])
      [] OTHER -> TRUE

\* C26: in the record clean_data returns, no field at any depth is None,
\* an empty string, an empty list or an empty mapping, and no list holds an
\* empty string.
C26_NoEmptyValueLeft ==
    probe_in.fn = "clean_data" /\ probe_out # Pending =>
        \A k \in DOMAIN probe_out.value.d : NoEmptyValue(probe_out.value.d[k])

\* C27: a call of handle_rate_limiting sleeps for what is left of the
\* interval 1/requests_per_second, or 0, plus a positive jitter, and then
\* sets the last-request timestamp to the time it is; the timestamp never
\* decreases and lies at least the interval after the one before.
C27_RateLimiterSleep ==
    [][last_op'.fn = "handle_rate_limiting" =>
          LET interval == 10 \div RATE_LIMITS["default"].requests_per_second
              elapsed == now - last_request_time
              rest == IF interval > elapsed THEN interval - elapsed ELSE 0
          IN  /\ now' - now = rest + last_op'.jitter
              /\ last_op'.jitter > 0
              /\ last_request_time' = now'
              /\ last_request_time' >= last_request_time + interval]_vars

\* C28: no exception leaves retry_on_failure, not even when the clearing
\* of the cookies raises: the call is still running, or it has returned.
C28_RetryNeverPropagates == retry_state # "propagated"

\* C29: a save_to_cache(k, r) that returns False leaves what a following
\* load_from_cache(k, ttl) returns as it was before the save.
C29_FailedSaveKeepsEntry ==
    [][/\ last_op'.fn = "save_to_cache" /\ now' = now
       /\ last_op'.result = Return(BoolV(FALSE))
       => \A ttl \in TtlChoices :
              load_from_cache(cache', last_op'.key, ttl, now, "ok")
                  = load_from_cache(cache, last_op'.key, ttl, now, "ok")]_vars

\* C30: with a revenue floor active, every record apply_filters keeps
\* carries a number under 'revenue' that is at least the floor, so a record
\* assembled by scrape_attempt, which carries revenue_range and no
\* 'revenue', is never kept.
C30_RevenueFloorDropsScraped ==
    /\ probe_in.fn = "apply_filters" /\ probe_out # Pending
    /\ probe_in.filters.min_revenue # "0"
    => LET floor == IF probe_in.filters.min_revenue = "1M" THEN 1000000
                    ELSE 5000000
           kept == probe_out.value
       IN  /\ \A i \in 1..Len(kept) :
                  /\ "revenue" \in DOMAIN kept[i]
                  /\ kept[i]["revenue"].t = "int"
                  /\ kept[i]["revenue"].n >= floor
           /\ \A i \in 1..Len(kept) : kept[i] # D_scraped

\* a floor of 1M alone was active: the scraped record went, the record with
\* a revenue of two millions stayed
C30_Witness ==
    /\ probe_in.fn = "apply_filters"
    /\ probe_in.filters = [NoFilters EXCEPT !.min_revenue = "1M"]
    /\ probe_in.data = <<D_scraped, D_full>>
    /\ "revenue_range" \in DOMAIN D_scraped
    /\ probe_out = Done(<<D_full>>)

====
